---- MODULE Spec2Model ----
(***************************************************************************)
(* Model of the SAMA5D4 software package: the PMC clock-tree driver        *)
(* (drivers/peripherals/pmc.c), the TWI driver (drivers/peripherals/twi.c) *)
(* and the command console of the spi_serialflash example.                 *)
(*                                                                         *)
(* Registers are naturals; the bitwise operators of C are the operators    *)
(* BitAnd, BitOr and BitClear below.  A uint32_t whose value can pass      *)
(* 2^31 - 1 is kept as two 16-bit limbs (the U32 operators), so that the   *)
(* wrap-around of the C arithmetic is computed and not assumed away.       *)
(***************************************************************************)
EXTENDS Integers, Sequences, FiniteSets, TLC

(***************************************************************************)
(* Bitwise arithmetic on naturals.                                         *)
(***************************************************************************)
RECURSIVE BitAnd(_, _)
BitAnd(a, b) ==
    IF a = 0 \/ b = 0 THEN 0
    ELSE (a % 2) * (b % 2) + 2 * BitAnd(a \div 2, b \div 2)

BitOr(a, b) == a + b - BitAnd(a, b)

\* a & ~m
BitClear(a, m) == a - BitAnd(a, m)

RECURSIVE Pow2(_)
Pow2(k) == IF k = 0 THEN 1 ELSE 2 * Pow2(k - 1)

(***************************************************************************)
(* uint32_t arithmetic on two 16-bit limbs: the value is hi * 2^16 + lo.   *)
(***************************************************************************)
Limb == Pow2(16)

ToU32(n) == [hi |-> n \div Limb, lo |-> n % Limb]

\* only for values below 2^31
FromU32(u) == u.hi * Limb + u.lo

\* (u * k) mod 2^32, for a multiplier k < 2^15
MulU32(u, k) ==
    LET lo_p == u.lo * k
        hi_p == u.hi * k + lo_p \div Limb
    IN  [hi |-> hi_p % Limb, lo |-> lo_p % Limb]

\* u / d (C unsigned division), for a divisor 0 < d < 2^15
DivU32(u, d) ==
    LET r == u.hi % d
    IN  [hi |-> u.hi \div d, lo |-> (r * Limb + u.lo) \div d]

\* u >> k, for 0 <= k < 32
ShrU32(u, k) ==
    IF k < 16
    THEN [hi |-> u.hi \div Pow2(k),
          lo |-> u.lo \div Pow2(k) + (u.hi % Pow2(k)) * Pow2(16 - k)]
    ELSE [hi |-> 0, lo |-> u.hi \div Pow2(k - 16)]

\* (u - n) mod 2^32, for 0 <= n < 2^16
SubU32(u, n) ==
    IF u.lo >= n THEN [hi |-> u.hi, lo |-> u.lo - n]
    ELSE IF u.hi > 0 THEN [hi |-> u.hi - 1, lo |-> u.lo + Limb - n]
    ELSE [hi |-> Limb - 1, lo |-> u.lo + Limb - n]

(***************************************************************************)
(* Register layout of the PMC and of the slow clock controller.            *)
(***************************************************************************)
PMC_MCKR_CSS_Msk == 3
PMC_MCKR_CSS_SLOW_CLK == 0
PMC_MCKR_CSS_MAIN_CLK == 1
PMC_MCKR_CSS_PLLA_CLK == 2
PMC_MCKR_CSS_UPLL_CLK == 3
PMC_MCKR_CSS(v) == BitAnd(v, PMC_MCKR_CSS_Msk)
PMC_PCK_CSS_SLOW_CLK == 0
PMC_PCK_CSS_MAIN_CLK == 1

PMC_MCKR_PRES_Msk == 112
PMC_MCKR_PRES_CLOCK == 0
PMC_MCKR_PRES_CLOCK_DIV2 == 16
PMC_MCKR_PRES_CLOCK_DIV4 == 32
PMC_MCKR_PRES_CLOCK_DIV8 == 48
PMC_MCKR_PRES_CLOCK_DIV16 == 64
PMC_MCKR_PRES_CLOCK_DIV32 == 80
PMC_MCKR_PRES_CLOCK_DIV64 == 96

PMC_MCKR_MDIV_Msk == 768
PMC_MCKR_MDIV_EQ_PCK == 0
PMC_MCKR_MDIV_PCK_DIV2 == 256
PMC_MCKR_MDIV_PCK_DIV4 == 512
PMC_MCKR_MDIV_PCK_DIV3 == 768

PMC_MCKR_PLLADIV2 == 4096

CKGR_MOR_MOSCXTEN == 1
CKGR_MOR_MOSCRCEN == 8
CKGR_MOR_KEY_Msk == 16711680
CKGR_MOR_KEY_PASSWD == 3604480
CKGR_MOR_MOSCSEL == 16777216

CKGR_PLLAR_DIVA_Pos == 0
CKGR_PLLAR_DIVA_Msk == 255
CKGR_PLLAR_MULA_Pos == 18
CKGR_PLLAR_MULA_Msk == 33292288
CKGR_PLLAR_MULA(v) == (v % 128) * Pow2(CKGR_PLLAR_MULA_Pos)
CKGR_PLLAR_DIVA(v) == (v % 256) * Pow2(CKGR_PLLAR_DIVA_Pos)

SCKC_CR_OSCSEL == 8
SCKC_CR_OSCSEL_RC == 0
SCKC_CR_OSCSEL_XTAL == 8

(***************************************************************************)
(* Oscillator frequencies.                                                 *)
(***************************************************************************)
SLOW_CLOCK_INT_OSC == 32000
MAIN_CLOCK_INT_OSC == 12000000
BOARD_SLOW_CLOCK_EXT_OSC == 32768
BOARD_MAIN_CLOCK_EXT_OSC == 12000000

ID_PERIPH_COUNT == 68

(***************************************************************************)
(* Status flags and system clock commands of the PMC.                      *)
(***************************************************************************)
PMC_SR_MCKRDY == Pow2(3)
PMC_SR_MOSCSELS == Pow2(16)
PMC_SR_MOSCRCS == Pow2(17)
CKGR_MCFR_MAINFRDY == Pow2(16)
\* PMC_SCER_PCKn, PMC_SCDR_PCKn, PMC_SCSR_PCKn and PMC_SR_PCKRDYn
PMC_SCER_PCK(n) == Pow2(8 + n)
PMC_SCDR_PCK(n) == Pow2(8 + n)
PMC_SCSR_PCK(n) == Pow2(8 + n)
PMC_SR_PCKRDY(n) == Pow2(8 + n)
PMC_PCK_CSS_Msk == Pow2(3) - 1
PMC_PCK_PRES(v) == (v % Pow2(3)) * Pow2(4)

(***************************************************************************)
(* Bounds of the model.                                                    *)
(***************************************************************************)
MaxMula == 1
MaxDiva == 1
\* the size of cmd_buffer in the model (16 MiB in the program)
CMD_BUFFER_SIZE == 3
\* the most times a wait loop finds its flag not yet as awaited
MaxPolls == 1

VARIABLES
    PMC_MCKR,       \* master clock register
    CKGR_PLLAR,     \* PLLA register
    CKGR_MOR,       \* main oscillator register
    PMC_PLLICPR,    \* PLL charge pump current register
    SCKC_CR,        \* slow clock controller configuration register
    _pmc_mck,       \* the cached master clock of pmc.c
    PMC_PCR,        \* peripheral control register: the value last written
    periph_en,      \* hardware: the ids of the peripherals whose clock is enabled
    last_call,      \* per id, the last of pmc_enable_peripheral and pmc_disable_peripheral
    loop_i,         \* the loop variable of pmc_disable_all_peripherals (0 outside of it)
    TWI_CWGR,       \* TWI clock waveform generator register
    TWI_IMR,        \* TWI interrupt mask register
    TWI_SR,         \* TWI status register
    twi_log,        \* the register accesses of the last TWI operation, in order
    twi_cfg,        \* the locals of the last twi_configure_master at its assert
    assert_failed,  \* an assert of the program has failed: the program has stopped
    lock,           \* spi_serialflash: the mutex (0 free, 1 taken)
    cmd_buffer,     \* spi_serialflash: the command buffer
    cmd_index,      \* spi_serialflash: the length of the command to parse
    index,          \* spi_serialflash: the static index of console_handler
    pc,             \* spi_serialflash: where the main loop stands
    irq,            \* what console_handler did if it ran since the last main step
    parsed,         \* the command the parser was last called with
    oob,            \* console_handler has written outside cmd_buffer
    tracing,        \* the register accesses of the PMC functions are recorded
    pmc_log,        \* the register accesses of the last PMC function, in order
    osc_pc,         \* where a pmc_select_internal_osc run step by step stands
    PMC_PCK,        \* the programmable clock registers PMC_PCK[0..2]
    PMC_SCSR,       \* system clock status register: the PCKn bits
    ws,             \* the locals of twi_write_stream and the writes to TWI_THR
    ex,             \* crypto_qspi_aesb: where main stands, its locals, its calls
    op,             \* the query that ran last ("void" after a function that returns nothing)
    arg,            \* the argument of a query (0 when it has none)
    ret             \* what it returned (0 for a void function)

pmc_vars == <<PMC_MCKR, CKGR_PLLAR, CKGR_MOR, PMC_PLLICPR, SCKC_CR, _pmc_mck>>
periph_vars == <<PMC_PCR, periph_en, last_call, loop_i>>
twi_vars == <<TWI_CWGR, TWI_IMR, TWI_SR, twi_log, twi_cfg>>
con_vars == <<lock, cmd_buffer, cmd_index, index, pc, irq, parsed, oob>>
trace_vars == <<tracing, pmc_log, osc_pc>>
pck_vars == <<PMC_PCK, PMC_SCSR>>
vars == <<PMC_MCKR, CKGR_PLLAR, CKGR_MOR, PMC_PLLICPR, SCKC_CR, _pmc_mck,
          PMC_PCR, periph_en, last_call, loop_i,
          TWI_CWGR, TWI_IMR, TWI_SR, twi_log, twi_cfg, assert_failed,
          lock, cmd_buffer, cmd_index, index, pc, irq, parsed, oob,
          tracing, pmc_log, osc_pc, PMC_PCK, PMC_SCSR, ws, ex, op, arg, ret>>

(***************************************************************************)
(* pmc.c: the clock queries, as functions of the register contents.        *)
(***************************************************************************)
pmc_get_slow_clock(sckc_cr) ==
    IF BitAnd(sckc_cr, SCKC_CR_OSCSEL) # 0
    THEN SLOW_CLOCK_INT_OSC
    ELSE BOARD_SLOW_CLOCK_EXT_OSC

pmc_get_main_clock(mor) ==
    IF BitAnd(mor, CKGR_MOR_MOSCSEL) # 0
    THEN MAIN_CLOCK_INT_OSC
    ELSE BOARD_MAIN_CLOCK_EXT_OSC

\* the constant that pmc_get_slow_clock returns
SlowClockReturned(sckc_cr) ==
    IF BitAnd(sckc_cr, SCKC_CR_OSCSEL) # 0 THEN "SLOW_CLOCK_INT_OSC"
    ELSE "BOARD_SLOW_CLOCK_EXT_OSC"

\* the constant that pmc_get_main_clock returns
MainClockReturned(mor) ==
    IF BitAnd(mor, CKGR_MOR_MOSCSEL) # 0 THEN "MAIN_CLOCK_INT_OSC"
    ELSE "BOARD_MAIN_CLOCK_EXT_OSC"

\* pmc_get_plla_clock with the multiplier taken as MULA instead of MULA + 1
pmc_get_plla_clock_u32_mula(mor, pllar, mckr) ==
    LET pllaclk0 == IF BitAnd(mor, CKGR_MOR_MOSCSEL) # 0
                    THEN MAIN_CLOCK_INT_OSC
                    ELSE BOARD_MAIN_CLOCK_EXT_OSC
        pllmula == BitAnd(pllar, CKGR_PLLAR_MULA_Msk) \div Pow2(CKGR_PLLAR_MULA_Pos)
        plldiva == BitAnd(pllar, CKGR_PLLAR_DIVA_Msk) \div Pow2(CKGR_PLLAR_DIVA_Pos)
        pllaclk1 == DivU32(MulU32(ToU32(pllaclk0), pllmula), plldiva)
    IN  IF plldiva = 0 THEN ToU32(0)
        ELSE IF BitAnd(mckr, PMC_MCKR_PLLADIV2) # 0 THEN ShrU32(pllaclk1, 1)
        ELSE pllaclk1

\* the uint32_t the function returns, as limbs
pmc_get_plla_clock_u32(mor, pllar, mckr) ==
    LET pllaclk0 == IF BitAnd(mor, CKGR_MOR_MOSCSEL) # 0
                    THEN MAIN_CLOCK_INT_OSC
                    ELSE BOARD_MAIN_CLOCK_EXT_OSC
        pllmula == BitAnd(pllar, CKGR_PLLAR_MULA_Msk) \div Pow2(CKGR_PLLAR_MULA_Pos)
        plldiva == BitAnd(pllar, CKGR_PLLAR_DIVA_Msk) \div Pow2(CKGR_PLLAR_DIVA_Pos)
        pllaclk1 == DivU32(MulU32(ToU32(pllaclk0), pllmula + 1), plldiva)
    IN  IF plldiva = 0 THEN ToU32(0)
        ELSE IF BitAnd(mckr, PMC_MCKR_PLLADIV2) # 0 THEN ShrU32(pllaclk1, 1)
        ELSE pllaclk1

pmc_get_plla_clock(mor, pllar, mckr) == FromU32(pmc_get_plla_clock_u32(mor, pllar, mckr))

\* _pmc_compute_mck: the value it stores in _pmc_mck
ComputeMck(mckr, pllar, mor, sckc_cr) ==
    LET css == BitAnd(mckr, PMC_MCKR_CSS_Msk)
        clk0 == CASE css = PMC_MCKR_CSS_SLOW_CLK -> pmc_get_slow_clock(sckc_cr)
                  [] css = PMC_MCKR_CSS_MAIN_CLK -> pmc_get_main_clock(mor)
                  [] css = PMC_MCKR_CSS_PLLA_CLK -> pmc_get_plla_clock(mor, pllar, mckr)
                  [] css = PMC_MCKR_CSS_UPLL_CLK -> BOARD_MAIN_CLOCK_EXT_OSC
                  [] OTHER -> 0
        pres == BitAnd(mckr, PMC_MCKR_PRES_Msk)
        clk1 == CASE pres = PMC_MCKR_PRES_CLOCK -> clk0
                  [] pres = PMC_MCKR_PRES_CLOCK_DIV2 -> clk0 \div 2
                  [] pres = PMC_MCKR_PRES_CLOCK_DIV4 -> clk0 \div 4
                  [] pres = PMC_MCKR_PRES_CLOCK_DIV8 -> clk0 \div 8
                  [] pres = PMC_MCKR_PRES_CLOCK_DIV16 -> clk0 \div 16
                  [] pres = PMC_MCKR_PRES_CLOCK_DIV32 -> clk0 \div 32
                  [] pres = PMC_MCKR_PRES_CLOCK_DIV64 -> clk0 \div 64
                  [] OTHER -> clk0
        mdiv == BitAnd(mckr, PMC_MCKR_MDIV_Msk)
    IN  CASE mdiv = PMC_MCKR_MDIV_EQ_PCK -> clk1
          [] mdiv = PMC_MCKR_MDIV_PCK_DIV2 -> clk1 \div 2
          [] mdiv = PMC_MCKR_MDIV_PCK_DIV4 -> clk1 \div 4
          [] mdiv = PMC_MCKR_MDIV_PCK_DIV3 -> clk1 \div 3
          [] OTHER -> clk1

\* pmc_get_master_clock: the cache after the call, which is also the value returned
MasterClock(cache, mckr, pllar, mor, sckc_cr) ==
    IF cache = 0 THEN ComputeMck(mckr, pllar, mor, sckc_cr) ELSE cache

\* pmc_get_processor_clock, given the value pmc_get_master_clock returned
ProcessorClock(mck, mckr) ==
    LET mdiv == BitAnd(mckr, PMC_MCKR_MDIV_Msk)
    IN  CASE mdiv = PMC_MCKR_MDIV_EQ_PCK -> ToU32(mck)
          [] mdiv = PMC_MCKR_MDIV_PCK_DIV2 -> MulU32(ToU32(mck), 2)
          [] mdiv = PMC_MCKR_MDIV_PCK_DIV3 -> MulU32(ToU32(mck), 3)
          [] mdiv = PMC_MCKR_MDIV_PCK_DIV4 -> MulU32(ToU32(mck), 4)
          [] OTHER -> ToU32(mck)

\* pmc_get_peripheral_clock without the test of the divider against 0
PeripheralClock_nodiv(cache, mckr, pllar, mor, sckc_cr, div) ==
    IF div # 0 THEN MasterClock(cache, mckr, pllar, mor, sckc_cr) \div div
    ELSE MasterClock(cache, mckr, pllar, mor, sckc_cr)

\* pmc_get_peripheral_clock, given the divider get_peripheral_clock_divider returned
PeripheralClock(cache, mckr, pllar, mor, sckc_cr, div) ==
    IF div # 0 THEN MasterClock(cache, mckr, pllar, mor, sckc_cr) \div div ELSE 0

(***************************************************************************)
(* Inputs of the operations.                                               *)
(***************************************************************************)
PrescalerInputs == {PMC_MCKR_PRES_CLOCK, PMC_MCKR_PRES_CLOCK_DIV2}

\* arguments of pmc_set_mck_prescaler with bits outside the PRES field
PrescalerArgs ==
    {PMC_MCKR_PRES_CLOCK, PMC_MCKR_PRES_CLOCK_DIV2, PMC_MCKR_PRES_CLOCK_DIV64,
     PMC_MCKR_CSS_UPLL_CLK, PMC_MCKR_PRES_CLOCK_DIV2 + PMC_MCKR_MDIV_PCK_DIV2}

DividerInputs ==
    {PMC_MCKR_MDIV_EQ_PCK, PMC_MCKR_MDIV_PCK_DIV2, PMC_MCKR_MDIV_PCK_DIV4,
     PMC_MCKR_MDIV_PCK_DIV3}

\* arguments of pmc_set_mck_divider with bits outside the MDIV field
DividerArgs ==
    {PMC_MCKR_MDIV_EQ_PCK, PMC_MCKR_MDIV_PCK_DIV2, PMC_MCKR_MDIV_PCK_DIV3,
     PMC_MCKR_CSS_PLLA_CLK, PMC_MCKR_MDIV_PCK_DIV2 + PMC_MCKR_PRES_CLOCK_DIV4}

PllInputs == {CKGR_PLLAR_MULA(m) + CKGR_PLLAR_DIVA(d) : m \in 0..MaxMula, d \in 0..MaxDiva}

\* the ids pmc.c accepts (1 < id < ID_PERIPH_COUNT) that the model uses
PeriphIds == {id \in {2, 32, ID_PERIPH_COUNT - 1} : id > 1 /\ id < ID_PERIPH_COUNT}

\* what get_peripheral_clock_divider may return
Dividers == {0, 1, 2}

(***************************************************************************)
(* pmc.c: the operations.  A wait loop on a status flag ends when the      *)
(* hardware raises the flag; the operation is one step.                    *)
(***************************************************************************)
Done(name, a, r) == op' = name /\ arg' = a /\ ret' = r

\* the end of a PMC operation: the other peripherals are left alone; log is the
\* sequence of its register accesses <<"R" or "W", register, value>> and of its
\* return statement, kept when the accesses are traced
PmcLogged(name, a, r, log) ==
    /\ Done(name, a, r)
    /\ pmc_log' = IF tracing THEN log ELSE <<>>
    /\ UNCHANGED <<periph_vars, twi_vars, assert_failed, con_vars, tracing, osc_pc, ws, ex>>

PmcDone(name, a, r) == PmcLogged(name, a, r, <<>>) /\ UNCHANGED pck_vars

\* the end of a PMC function that returns nothing
PmcVoid(name, a, log) ==
    /\ PmcLogged(IF tracing THEN name ELSE "void", IF tracing THEN a ELSE 0, 0, log)
    /\ UNCHANGED pck_vars

\* how many times a wait loop may find its flag clear
Polls == IF tracing THEN 0..MaxPolls ELSE {0}

\* while (!(reg & flag)); with the flag found clear polls times
WaitSet(reg, flag, polls) ==
    [i \in 1..(polls + 1) |-> <<"R", reg, IF i <= polls THEN 0 ELSE flag>>]

\* while (reg & flag); with the flag found set polls times
WaitClear(reg, flag, polls) ==
    [i \in 1..(polls + 1) |-> <<"R", reg, IF i <= polls THEN flag ELSE 0>>]

\* a switch that overwrites the whole of PMC_MCKR
SwitchMck_whole(mckr, css) == css

\* the value of PMC_MCKR after a switch of the master clock to source css
SwitchMck(mckr, css) == BitOr(BitClear(mckr, PMC_MCKR_CSS_Msk), css)

\* the accesses of a switch of the master clock
SwitchAccesses(mckr, css, polls) ==
    <<<<"R", "PMC_MCKR", mckr>>, <<"W", "PMC_MCKR", SwitchMck(mckr, css)>>>>
        \o WaitSet("PMC_SR", PMC_SR_MCKRDY, polls)

\* PMC_MCKR = (PMC_MCKR & ~mask) | value: the write of pmc_set_mck_prescaler and
\* of pmc_set_mck_divider
SetMckField(mckr, mask, value) == BitOr(BitClear(mckr, mask), value)

pmc_get_master_clock ==
    /\ _pmc_mck' = MasterClock(_pmc_mck, PMC_MCKR, CKGR_PLLAR, CKGR_MOR, SCKC_CR)
    /\ PmcDone("pmc_get_master_clock", 0, _pmc_mck')
    /\ UNCHANGED <<PMC_MCKR, CKGR_PLLAR, CKGR_MOR, PMC_PLLICPR, SCKC_CR>>

pmc_get_slow_clock_call ==
    /\ PmcLogged("pmc_get_slow_clock", 0, pmc_get_slow_clock(SCKC_CR),
                 <<<<"R", "SCKC_CR", SCKC_CR>>,
                   <<"return", SlowClockReturned(SCKC_CR), pmc_get_slow_clock(SCKC_CR)>>>>)
    /\ UNCHANGED pck_vars
    /\ UNCHANGED pmc_vars

pmc_get_main_clock_call ==
    /\ PmcLogged("pmc_get_main_clock", 0, pmc_get_main_clock(CKGR_MOR),
                 <<<<"R", "CKGR_MOR", CKGR_MOR>>,
                   <<"return", MainClockReturned(CKGR_MOR), pmc_get_main_clock(CKGR_MOR)>>>>)
    /\ UNCHANGED pck_vars
    /\ UNCHANGED pmc_vars

pmc_get_plla_clock_call ==
    /\ PmcDone("pmc_get_plla_clock", 0, pmc_get_plla_clock(CKGR_MOR, CKGR_PLLAR, PMC_MCKR))
    /\ UNCHANGED pmc_vars

pmc_get_processor_clock ==
    /\ _pmc_mck' = MasterClock(_pmc_mck, PMC_MCKR, CKGR_PLLAR, CKGR_MOR, SCKC_CR)
    /\ PmcDone("pmc_get_processor_clock", 0, FromU32(ProcessorClock(_pmc_mck', PMC_MCKR)))
    /\ UNCHANGED <<PMC_MCKR, CKGR_PLLAR, CKGR_MOR, PMC_PLLICPR, SCKC_CR>>

pmc_get_peripheral_clock ==
    \E id \in PeriphIds, div \in Dividers :
        /\ _pmc_mck' = IF div # 0
                       THEN MasterClock(_pmc_mck, PMC_MCKR, CKGR_PLLAR, CKGR_MOR, SCKC_CR)
                       ELSE _pmc_mck
        /\ PmcDone("pmc_get_peripheral_clock", div,
                PeripheralClock(_pmc_mck, PMC_MCKR, CKGR_PLLAR, CKGR_MOR, SCKC_CR, div))
        /\ UNCHANGED <<PMC_MCKR, CKGR_PLLAR, CKGR_MOR, PMC_PLLICPR, SCKC_CR>>

pmc_switch_mck_to_pll ==
    \E polls \in Polls :
        /\ PMC_MCKR' = SwitchMck(PMC_MCKR, PMC_MCKR_CSS_PLLA_CLK)
        /\ _pmc_mck' = 0
        /\ PmcVoid("pmc_switch_mck_to_pll", 0, SwitchAccesses(PMC_MCKR, PMC_MCKR_CSS_PLLA_CLK, polls))
        /\ UNCHANGED <<CKGR_PLLAR, CKGR_MOR, PMC_PLLICPR, SCKC_CR>>

pmc_switch_mck_to_main ==
    \E polls \in Polls :
        /\ PMC_MCKR' = SwitchMck(PMC_MCKR, PMC_PCK_CSS_MAIN_CLK)
        /\ _pmc_mck' = 0
        /\ PmcVoid("pmc_switch_mck_to_main", 0, SwitchAccesses(PMC_MCKR, PMC_PCK_CSS_MAIN_CLK, polls))
        /\ UNCHANGED <<CKGR_PLLAR, CKGR_MOR, PMC_PLLICPR, SCKC_CR>>

pmc_switch_mck_to_slck ==
    \E polls \in Polls :
        /\ PMC_MCKR' = SwitchMck(PMC_MCKR, PMC_PCK_CSS_SLOW_CLK)
        /\ _pmc_mck' = 0
        /\ PmcVoid("pmc_switch_mck_to_slck", 0, SwitchAccesses(PMC_MCKR, PMC_PCK_CSS_SLOW_CLK, polls))
        /\ UNCHANGED <<CKGR_PLLAR, CKGR_MOR, PMC_PLLICPR, SCKC_CR>>

pmc_set_mck_prescaler ==
    \E prescaler \in (IF tracing THEN PrescalerArgs ELSE PrescalerInputs), polls \in Polls :
        /\ PMC_MCKR' = SetMckField(PMC_MCKR, PMC_MCKR_PRES_Msk, prescaler)
        /\ PmcVoid("pmc_set_mck_prescaler", prescaler,
                   <<<<"R", "PMC_MCKR", PMC_MCKR>>, <<"W", "PMC_MCKR", PMC_MCKR'>>>>
                       \o WaitSet("PMC_SR", PMC_SR_MCKRDY, polls))
        /\ UNCHANGED <<CKGR_PLLAR, CKGR_MOR, PMC_PLLICPR, SCKC_CR, _pmc_mck>>

pmc_set_mck_plla_div ==
    \E divider \in {0, PMC_MCKR_PLLADIV2} :
        /\ PMC_MCKR' =
              IF BitAnd(PMC_MCKR, PMC_MCKR_PLLADIV2) = PMC_MCKR_PLLADIV2
              THEN IF divider = 0 THEN BitClear(PMC_MCKR, PMC_MCKR_PLLADIV2) ELSE PMC_MCKR
              ELSE IF divider = PMC_MCKR_PLLADIV2
                   THEN BitOr(PMC_MCKR, PMC_MCKR_PLLADIV2)
                   ELSE PMC_MCKR
        /\ PmcDone("void", 0, 0)
        /\ UNCHANGED <<CKGR_PLLAR, CKGR_MOR, PMC_PLLICPR, SCKC_CR, _pmc_mck>>

pmc_set_mck_divider ==
    \E divider \in (IF tracing THEN DividerArgs ELSE DividerInputs), polls \in Polls :
        /\ PMC_MCKR' = SetMckField(PMC_MCKR, PMC_MCKR_MDIV_Msk, divider)
        /\ PmcVoid("pmc_set_mck_divider", divider,
                   <<<<"R", "PMC_MCKR", PMC_MCKR>>, <<"W", "PMC_MCKR", PMC_MCKR'>>>>
                       \o WaitSet("PMC_SR", PMC_SR_MCKRDY, polls))
        /\ UNCHANGED <<CKGR_PLLAR, CKGR_MOR, PMC_PLLICPR, SCKC_CR, _pmc_mck>>

pmc_set_plla ==
    \E pll \in PllInputs, cpcr \in {1} :
        /\ CKGR_PLLAR' = pll
        /\ PMC_PLLICPR' = cpcr
        /\ PmcDone("void", 0, 0)
        /\ UNCHANGED <<PMC_MCKR, CKGR_MOR, SCKC_CR, _pmc_mck>>

pmc_disable_plla ==
    /\ CKGR_PLLAR' = BitOr(BitClear(CKGR_PLLAR, CKGR_PLLAR_MULA_Msk), CKGR_PLLAR_MULA(0))
    /\ PmcDone("void", 0, 0)
    /\ UNCHANGED <<PMC_MCKR, CKGR_MOR, PMC_PLLICPR, SCKC_CR, _pmc_mck>>

\* the test of pmc_select_external_crystal and pmc_select_internal_crystal for
\* a master clock on the slow clock
MckOnSlowClock(mckr) == mckr = PMC_MCKR_CSS(PMC_MCKR_CSS_SLOW_CLK)

\* pmc_select_external_crystal and pmc_select_internal_crystal, for the value
\* oscsel written to the OSCSEL field
SelectCrystal(name, oscsel) ==
    \E polls \in Polls :
        LET return_to_sclock == MckOnSlowClock(PMC_MCKR)
            mckr1 == IF return_to_sclock
                     THEN SwitchMck(PMC_MCKR, PMC_PCK_CSS_MAIN_CLK)
                     ELSE PMC_MCKR
        IN  /\ SCKC_CR' = BitOr(BitClear(SCKC_CR, SCKC_CR_OSCSEL), oscsel)
            /\ PMC_MCKR' = IF return_to_sclock
                           THEN SwitchMck(mckr1, PMC_PCK_CSS_SLOW_CLK)
                           ELSE mckr1
            /\ _pmc_mck' = IF return_to_sclock THEN 0 ELSE _pmc_mck
            /\ PmcVoid(name, 0,
                   <<<<"R", "PMC_MCKR", PMC_MCKR>>>>
                   \o (IF return_to_sclock
                       THEN SwitchAccesses(PMC_MCKR, PMC_PCK_CSS_MAIN_CLK, polls)
                       ELSE <<>>)
                   \o <<<<"R", "SCKC_CR", SCKC_CR>>, <<"W", "SCKC_CR", SCKC_CR'>>>>
                   \o (IF return_to_sclock
                       THEN SwitchAccesses(mckr1, PMC_PCK_CSS_SLOW_CLK, polls)
                       ELSE <<>>))
            /\ UNCHANGED <<CKGR_PLLAR, CKGR_MOR, PMC_PLLICPR>>

pmc_select_external_crystal ==
    SelectCrystal("pmc_select_external_crystal", SCKC_CR_OSCSEL_XTAL)

pmc_select_internal_crystal ==
    SelectCrystal("pmc_select_internal_crystal", SCKC_CR_OSCSEL_RC)

\* a write to CKGR_MOR: the KEY field is a write password and is not stored
WriteMor(v) == BitClear(v, CKGR_MOR_KEY_Msk)

pmc_select_external_osc ==
    LET selected == BitAnd(CKGR_MOR, CKGR_MOR_MOSCSEL) = CKGR_MOR_MOSCSEL
        mor1 == WriteMor(BitOr(CKGR_MOR, BitOr(CKGR_MOR_MOSCXTEN, CKGR_MOR_KEY_PASSWD)))
        mor2 == WriteMor(BitOr(mor1, BitOr(CKGR_MOR_MOSCSEL, CKGR_MOR_KEY_PASSWD)))
    IN  /\ CKGR_MOR' = IF selected THEN CKGR_MOR ELSE mor2
        /\ PmcVoid("pmc_select_external_osc", 0,
                   IF selected
                   THEN <<<<"R", "CKGR_MOR", CKGR_MOR>>>>
                   ELSE <<<<"R", "CKGR_MOR", CKGR_MOR>>, <<"R", "CKGR_MOR", CKGR_MOR>>,
                          <<"W", "CKGR_MOR", mor1>>>>
                        \o WaitSet("CKGR_MCFR", CKGR_MCFR_MAINFRDY, 0)
                        \o <<<<"R", "CKGR_MOR", mor1>>, <<"W", "CKGR_MOR", mor2>>>>
                        \o WaitSet("PMC_SR", PMC_SR_MOSCSELS, 0)
                        \o WaitSet("PMC_SR", PMC_SR_MCKRDY, 0))
        /\ UNCHANGED <<PMC_MCKR, CKGR_PLLAR, PMC_PLLICPR, SCKC_CR, _pmc_mck>>

\* the first wait loop is on MOSCRCS, which the hardware raises while the
\* internal RC oscillator is enabled
pmc_select_internal_osc ==
    LET mor1 == WriteMor(BitOr(BitClear(CKGR_MOR, CKGR_MOR_MOSCSEL), CKGR_MOR_KEY_PASSWD))
        mor2 == WriteMor(BitOr(BitClear(mor1, CKGR_MOR_MOSCXTEN), CKGR_MOR_KEY_PASSWD))
    IN  /\ BitAnd(CKGR_MOR, CKGR_MOR_MOSCRCEN) # 0
        /\ CKGR_MOR' = mor2
        /\ PmcVoid("pmc_select_internal_osc", 0,
                   WaitSet("PMC_SR", PMC_SR_MOSCRCS, 0)
                   \o <<<<"R", "CKGR_MOR", CKGR_MOR>>, <<"W", "CKGR_MOR", mor1>>>>
                   \o WaitSet("PMC_SR", PMC_SR_MCKRDY, 0)
                   \o <<<<"R", "CKGR_MOR", mor1>>, <<"W", "CKGR_MOR", mor2>>>>
                   \o WaitSet("PMC_SR", PMC_SR_MCKRDY, 0))
        /\ UNCHANGED <<PMC_MCKR, CKGR_PLLAR, PMC_PLLICPR, SCKC_CR, _pmc_mck>>

NoCfg == [clock |-> 0, ck_div |-> 0, cl_div |-> 0, shift_ub |-> FALSE]

(***************************************************************************)
(* The parts of the initial state.                                         *)
(***************************************************************************)
\* at reset no peripheral clock is enabled
PeriphReset ==
    /\ PMC_PCR = 0
    /\ periph_en = {}
    /\ last_call = [id \in PeriphIds |-> "none"]
    /\ loop_i = 0

TwiReset ==
    /\ TWI_CWGR = 0
    /\ TWI_IMR = 0
    /\ TWI_SR = 0
    /\ twi_log = <<>>
    /\ twi_cfg = NoCfg

\* the statics of spi_serialflash/main.c, the main loop about to start
ConsoleStart ==
    /\ lock = 0
    /\ cmd_buffer = [i \in 0..(CMD_BUFFER_SIZE - 1) |-> 0]
    /\ cmd_index = 0
    /\ index = 0
    /\ pc = "wfi"
    /\ irq = "none"
    /\ parsed = <<>>
    /\ oob = FALSE

NoCall ==
    /\ assert_failed = FALSE
    /\ op = "init"
    /\ arg = 0
    /\ ret = 0

\* the accesses of the PMC functions are not recorded
NoTrace ==
    /\ tracing = FALSE
    /\ pmc_log = <<>>
    /\ osc_pc = "idle"

\* at reset the programmable clocks are disabled
PckReset ==
    /\ PMC_PCK = [n \in 0..2 |-> 0]
    /\ PMC_SCSR = 0

\* twi_write_stream is not running
NoStream ==
    [pc |-> "idle", len |-> 0, left |-> ToU32(0), buf_size |-> ToU32(0),
     buffer |-> 0, thr |-> <<>>, ret |-> 0]

\* crypto_qspi_aesb: main is about to configure the AESB; calls are the calls made
ExStart ==
    [pc |-> "aesb_configure", calls |-> <<>>, verify_failed |-> FALSE, idx |-> 0,
     buffer_read |-> <<>>]

(***************************************************************************)
(* The PMC driver as a state machine: the registers at reset, then any     *)
(* sequence of operations.                                                 *)
(***************************************************************************)
Init ==
    /\ PMC_MCKR = PMC_MCKR_CSS_MAIN_CLK
    /\ CKGR_PLLAR = 0
    /\ CKGR_MOR = CKGR_MOR_MOSCRCEN
    /\ PMC_PLLICPR = 0
    /\ SCKC_CR = 0
    /\ _pmc_mck = 0
    /\ PeriphReset
    /\ TwiReset
    /\ ConsoleStart
    /\ NoCall
    /\ NoTrace
    /\ PckReset
    /\ ws = NoStream
    /\ ex = ExStart

Next ==
    \/ pmc_get_master_clock
    \/ pmc_get_slow_clock_call
    \/ pmc_get_main_clock_call
    \/ pmc_get_plla_clock_call
    \/ pmc_get_processor_clock
    \/ pmc_get_peripheral_clock
    \/ pmc_switch_mck_to_pll
    \/ pmc_switch_mck_to_main
    \/ pmc_switch_mck_to_slck
    \/ pmc_set_mck_prescaler
    \/ pmc_set_mck_plla_div
    \/ pmc_set_mck_divider
    \/ pmc_set_plla
    \/ pmc_disable_plla
    \/ pmc_select_external_crystal
    \/ pmc_select_internal_crystal
    \/ pmc_select_external_osc
    \/ pmc_select_internal_osc

Spec == Init /\ [][Next]_vars

(***************************************************************************)
(* The clock queries as pure functions of the registers: every CSS, PRES   *)
(* and MDIV setting, the cache empty at the start, and only queries run.   *)
(***************************************************************************)
MckrInputs ==
    {css + pres + mdiv + plladiv2 :
        css \in {PMC_MCKR_CSS_SLOW_CLK, PMC_MCKR_CSS_MAIN_CLK, PMC_MCKR_CSS_PLLA_CLK,
                 PMC_MCKR_CSS_UPLL_CLK},
        pres \in {PMC_MCKR_PRES_CLOCK, PMC_MCKR_PRES_CLOCK_DIV2, PMC_MCKR_PRES_CLOCK_DIV4,
                  PMC_MCKR_PRES_CLOCK_DIV8, PMC_MCKR_PRES_CLOCK_DIV16,
                  PMC_MCKR_PRES_CLOCK_DIV32, PMC_MCKR_PRES_CLOCK_DIV64},
        mdiv \in DividerInputs,
        plladiv2 \in {0, PMC_MCKR_PLLADIV2}}

MorInputs == {CKGR_MOR_MOSCRCEN, CKGR_MOR_MOSCRCEN + CKGR_MOR_MOSCXTEN + CKGR_MOR_MOSCSEL}

SckcInputs == {SCKC_CR_OSCSEL_RC, SCKC_CR_OSCSEL_XTAL}

InitClk ==
    /\ PMC_MCKR \in MckrInputs
    /\ CKGR_PLLAR \in PllInputs
    /\ CKGR_MOR \in MorInputs
    /\ PMC_PLLICPR = 0
    /\ SCKC_CR \in SckcInputs
    /\ _pmc_mck = 0
    /\ PeriphReset
    /\ TwiReset
    /\ ConsoleStart
    /\ NoCall
    /\ NoTrace
    /\ PckReset
    /\ ws = NoStream
    /\ ex = ExStart

NextClk ==
    \/ pmc_get_master_clock
    \/ pmc_get_slow_clock_call
    \/ pmc_get_main_clock_call
    \/ pmc_get_plla_clock_call
    \/ pmc_get_processor_clock
    \/ pmc_get_peripheral_clock

SpecClk == InitClk /\ [][NextClk]_vars

(***************************************************************************)
(* pmc_get_plla_clock over every value of the MULA and DIVA fields.        *)
(***************************************************************************)
AllPllInputs == {CKGR_PLLAR_MULA(m) + CKGR_PLLAR_DIVA(d) : m \in 0..127, d \in 0..255}

InitPll ==
    /\ PMC_MCKR \in {PMC_MCKR_CSS_PLLA_CLK, PMC_MCKR_CSS_PLLA_CLK + PMC_MCKR_PLLADIV2}
    /\ CKGR_PLLAR \in AllPllInputs
    /\ CKGR_MOR \in MorInputs
    /\ PMC_PLLICPR = 0
    /\ SCKC_CR = 0
    /\ _pmc_mck = 0
    /\ PeriphReset
    /\ TwiReset
    /\ ConsoleStart
    /\ NoCall
    /\ NoTrace
    /\ PckReset
    /\ ws = NoStream
    /\ ex = ExStart

NextPll ==
    \/ pmc_get_plla_clock_call
    \/ pmc_get_main_clock_call

SpecPll == InitPll /\ [][NextPll]_vars

(***************************************************************************)
(* The clock chain as the datasheet states it, from the register fields.   *)
(***************************************************************************)
CssField(mckr) == mckr % 4
PresField(mckr) == (mckr \div 16) % 8
MdivField(mckr) == (mckr \div 256) % 4
Plladiv2Field(mckr) == (mckr \div 4096) % 2
MulaField(pllar) == (pllar \div 262144) % 128
DivaField(pllar) == pllar % 256

\* the frequency of the source CSS selects
SelectedClock ==
    CASE CssField(PMC_MCKR) = 0 -> pmc_get_slow_clock(SCKC_CR)
      [] CssField(PMC_MCKR) = 1 -> pmc_get_main_clock(CKGR_MOR)
      [] CssField(PMC_MCKR) = 2 -> pmc_get_plla_clock(CKGR_MOR, CKGR_PLLAR, PMC_MCKR)
      [] CssField(PMC_MCKR) = 3 -> BOARD_MAIN_CLOCK_EXT_OSC

\* the selected clock after the PRES prescaler: the processor clock
PrescaledClock == SelectedClock \div Pow2(PresField(PMC_MCKR))

MdivDivisor == CASE MdivField(PMC_MCKR) = 0 -> 1
                 [] MdivField(PMC_MCKR) = 1 -> 2
                 [] MdivField(PMC_MCKR) = 2 -> 4
                 [] MdivField(PMC_MCKR) = 3 -> 3

\* the master clock the registers select
DerivedMck == PrescaledClock \div MdivDivisor

\* C1: whenever pmc_get_master_clock has just returned, after any sequence of PMC
\* operations, the value returned is the frequency the current registers give: the
\* clock CSS selects, divided by the PRES prescaler and then by the MDIV divider.
C1_MasterClockMatchesRegisters ==
    op = "pmc_get_master_clock" => ret = DerivedMck

\* C2: whenever pmc_get_processor_clock has just returned, for every source, PRES and
\* MDIV setting, the value returned is the selected clock divided by the PRES
\* prescaler only.
C2_ProcessorClockIsPrescaledClock ==
    op = "pmc_get_processor_clock" => ret = PrescaledClock

\* C3: pmc_get_plla_clock returns 0 when DIVA is 0 and otherwise
\* floor(main * (MULA + 1) / DIVA), halved when PLLADIV2 is set, computed in
\* unbounded integers, for every MULA and DIVA: the 32-bit product does not wrap.
C3_PllaClockExact ==
    op = "pmc_get_plla_clock" =>
        ret = IF DivaField(CKGR_PLLAR) = 0 THEN 0
              ELSE LET exact == (pmc_get_main_clock(CKGR_MOR) * (MulaField(CKGR_PLLAR) + 1))
                                    \div DivaField(CKGR_PLLAR)
                   IN  IF Plladiv2Field(PMC_MCKR) = 1 THEN exact \div 2 ELSE exact

\* the largest product (MULA = 127, with PLLADIV2 clear and DIVA = 1) has been computed
C3_Witness ==
    /\ op = "pmc_get_plla_clock"
    /\ MulaField(CKGR_PLLAR) = 127
    /\ DivaField(CKGR_PLLAR) = 1
    /\ Plladiv2Field(PMC_MCKR) = 0
    /\ ret = 1536000000

\* C4: pmc_get_peripheral_clock returns what pmc_get_master_clock returns divided by
\* the peripheral's divider when the divider is not 0, and 0 when it is 0.
C4_PeripheralClock ==
    op = "pmc_get_peripheral_clock" =>
        ret = IF arg = 0 THEN 0
              ELSE MasterClock(_pmc_mck, PMC_MCKR, CKGR_PLLAR, CKGR_MOR, SCKC_CR) \div arg

\* a peripheral clock of half a 12 MHz master clock has been returned
C4_Witness ==
    /\ op = "pmc_get_peripheral_clock"
    /\ arg = 2
    /\ _pmc_mck = 12000000
    /\ ret = 6000000

(***************************************************************************)
(* Register layout of the TWI.                                             *)
(***************************************************************************)
TWI_CR_MSEN == 4
TWI_CR_MSDIS == 8
TWI_CR_SVEN == 16
TWI_CR_SVDIS == 32
TWI_CR_SWRST == 128

TWI_SR_TXCOMP == 1
TWI_SR_RXRDY == 2
TWI_SR_TXRDY == 4
TWI_SR_NACK == 256

TWI_CWGR_CLDIV(v) == v % 256
TWI_CWGR_CHDIV(v) == (v % 256) * 256
TWI_CWGR_CKDIV(v) == (v % 8) * 65536

ID_TWI0 == 32

(***************************************************************************)
(* twi.c: twi_configure_master.                                            *)
(***************************************************************************)
\* the search loop, entered with ck_div; base is (clock / (2 * twi_clock)) - 3 as a
\* uint32_t.  A shift by 32 or more has no defined result: the search stops there.
RECURSIVE TwiSearch(_, _)
TwiSearch(base, ck_div) ==
    IF ck_div >= 32 THEN [ck_div |-> ck_div, cl_div |-> 0, shift_ub |-> TRUE]
    ELSE LET cl_div == ShrU32(base, ck_div)
         IN  IF cl_div.hi = 0 /\ cl_div.lo <= 255
             THEN [ck_div |-> ck_div, cl_div |-> cl_div.lo, shift_ub |-> FALSE]
             ELSE TwiSearch(base, ck_div + 1)

\* ck_div and cl_div when the loop is left
TwiDividers(clock, twi_clock) ==
    TwiSearch(SubU32(ToU32(clock \div (2 * twi_clock)), 3), 0)

\* the value written to TWI_CWGR without the CHDIV field
TwiCwgrValue_nochdiv(ck_div, cl_div) ==
    BitOr(TWI_CWGR_CKDIV(ck_div), TWI_CWGR_CLDIV(cl_div))

\* the second value written to TWI_CWGR
TwiCwgrValue(ck_div, cl_div) ==
    BitOr(TWI_CWGR_CKDIV(ck_div), BitOr(TWI_CWGR_CHDIV(cl_div), TWI_CWGR_CLDIV(cl_div)))

TwiClockInputs == {1000, 100000, 400000}

\* the writes up to the call of pmc_get_peripheral_clock
TwiConfigureProlog ==
    << <<"W", "TWI_CR", TWI_CR_SVEN>>, <<"W", "TWI_CR", TWI_CR_SWRST>>,
       <<"R", "TWI_RHR", 0>>, <<"W", "TWI_CR", TWI_CR_SVDIS>>,
       <<"W", "TWI_CR", TWI_CR_MSDIS>>, <<"W", "TWI_CR", TWI_CR_MSEN>> >>

\* the software reset puts the registers of the TWI back to 0; when the assert
\* fails the program stops before TWI_CWGR is written
twi_configure_master ==
    \E twi_clock \in TwiClockInputs, div \in Dividers :
        LET id == ID_TWI0
            clock == PeripheralClock(_pmc_mck, PMC_MCKR, CKGR_PLLAR, CKGR_MOR, SCKC_CR, div)
            d == TwiDividers(clock, twi_clock)
            cwgr == TwiCwgrValue(d.ck_div, d.cl_div)
        IN  /\ ~assert_failed
            /\ id > 1 /\ id < ID_PERIPH_COUNT
            /\ _pmc_mck' = IF div # 0
                           THEN MasterClock(_pmc_mck, PMC_MCKR, CKGR_PLLAR, CKGR_MOR, SCKC_CR)
                           ELSE _pmc_mck
            /\ TWI_IMR' = 0
            /\ TWI_SR' = 0
            /\ twi_cfg' = [clock |-> clock, ck_div |-> d.ck_div, cl_div |-> d.cl_div,
                           shift_ub |-> d.shift_ub]
            /\ IF d.ck_div < 8
               THEN /\ TWI_CWGR' = cwgr
                    /\ twi_log' = TwiConfigureProlog \o
                                    << <<"W", "TWI_CWGR", 0>>, <<"W", "TWI_CWGR", cwgr>> >>
                    /\ assert_failed' = FALSE
               ELSE /\ TWI_CWGR' = 0
                    /\ twi_log' = TwiConfigureProlog
                    /\ assert_failed' = TRUE
            /\ Done("twi_configure_master", twi_clock, 0)
            /\ UNCHANGED <<PMC_MCKR, CKGR_PLLAR, CKGR_MOR, PMC_PLLICPR, SCKC_CR,
                           periph_vars, con_vars, trace_vars, pck_vars, ws, ex>>

(***************************************************************************)
(* twi.c: interrupt sources and status.                                    *)
(***************************************************************************)
\* a read of TWI_SR by the CPU: the value read and the register after the read, in
\* which the flags that are cleared on read (NACK) are down
ReadTwiSr(sr) == [value |-> sr, after |-> BitClear(sr, TWI_SR_NACK)]

\* twi_get_masked_status with the status register read again for the return value
TwiGetMaskedStatus_reread(sr, imr) ==
    LET r1 == ReadTwiSr(sr)
        r2 == ReadTwiSr(r1.after)
    IN  [status |-> BitAnd(r2.value, imr),
         sr |-> r2.after,
         log |-> << <<"R", "TWI_SR", r1.value>>, <<"R", "TWI_IMR", imr>>,
                    <<"R", "TWI_SR", r2.value>> >>]

\* twi_get_masked_status: the value returned, TWI_SR after the call, the accesses
TwiGetMaskedStatus(sr, imr) ==
    LET r == ReadTwiSr(sr)
    IN  [status |-> BitAnd(r.value, imr),
         sr |-> r.after,
         log |-> << <<"R", "TWI_SR", r.value>>, <<"R", "TWI_IMR", imr>> >>]

TwiSourceInputs == {TWI_SR_TXCOMP, TWI_SR_RXRDY + TWI_SR_TXRDY, TWI_SR_NACK}

TwiStatusInputs == {TWI_SR_TXCOMP, TWI_SR_RXRDY, TWI_SR_TXRDY + TWI_SR_NACK}

\* the end of a TWI operation that does not touch the PMC
TwiDone(name, a, r) ==
    /\ Done(name, a, r)
    /\ UNCHANGED <<pmc_vars, periph_vars, twi_cfg, assert_failed, con_vars,
                   trace_vars, pck_vars, ws, ex>>

\* (sources & 0xFFFFF088) == 0
TwiSourcesValid(sources) == sources < 4096 /\ BitAnd(sources, 136) = 0

\* a write to TWI_IER raises the written bits in TWI_IMR
twi_enable_it ==
    \E sources \in TwiSourceInputs :
        /\ ~assert_failed
        /\ TwiSourcesValid(sources)
        /\ TWI_IMR' = BitOr(TWI_IMR, sources)
        /\ twi_log' = << <<"W", "TWI_IER", sources>> >>
        /\ TwiDone("void", 0, 0)
        /\ UNCHANGED <<TWI_CWGR, TWI_SR>>

\* a write to TWI_IDR lowers the written bits in TWI_IMR
twi_disable_it ==
    \E sources \in TwiSourceInputs :
        /\ ~assert_failed
        /\ TwiSourcesValid(sources)
        /\ TWI_IMR' = BitClear(TWI_IMR, sources)
        /\ twi_log' = << <<"W", "TWI_IDR", sources>> >>
        /\ TwiDone("void", 0, 0)
        /\ UNCHANGED <<TWI_CWGR, TWI_SR>>

twi_get_status ==
    /\ ~assert_failed
    /\ TWI_SR' = ReadTwiSr(TWI_SR).after
    /\ twi_log' = << <<"R", "TWI_SR", ReadTwiSr(TWI_SR).value>> >>
    /\ TwiDone("twi_get_status", 0, ReadTwiSr(TWI_SR).value)
    /\ UNCHANGED <<TWI_CWGR, TWI_IMR>>

twi_get_masked_status ==
    LET r == TwiGetMaskedStatus(TWI_SR, TWI_IMR)
    IN  /\ ~assert_failed
        /\ TWI_SR' = r.sr
        /\ twi_log' = r.log
        /\ TwiDone("twi_get_masked_status", 0, r.status)
        /\ UNCHANGED <<TWI_CWGR, TWI_IMR>>

\* the TWI hardware changes its status
TwiHwStatus ==
    \E status \in TwiStatusInputs :
        /\ ~assert_failed
        /\ TWI_SR' = status
        /\ UNCHANGED <<pmc_vars, periph_vars, TWI_CWGR, TWI_IMR, twi_log, twi_cfg,
                       assert_failed, con_vars, op, arg, ret, trace_vars, pck_vars, ws, ex>>

(***************************************************************************)
(* The TWI driver on a board whose clocks are set up: the PMC registers    *)
(* are one of the configurations below, then any sequence of TWI           *)
(* operations.                                                             *)
(***************************************************************************)
\* MCK from the main clock, MCK from the slow clock, MCK = PLLA / 2 / 3 with PLLA at
\* 88 times the main clock
TwiPmcConfigs ==
    {[mckr |-> PMC_MCKR_CSS_MAIN_CLK, pllar |-> 0],
     [mckr |-> PMC_MCKR_CSS_SLOW_CLK, pllar |-> 0],
     [mckr |-> PMC_MCKR_CSS_PLLA_CLK + PMC_MCKR_PLLADIV2 + PMC_MCKR_MDIV_PCK_DIV3,
      pllar |-> CKGR_PLLAR_MULA(87) + CKGR_PLLAR_DIVA(1)]}

InitTwi ==
    /\ \E c \in TwiPmcConfigs : PMC_MCKR = c.mckr /\ CKGR_PLLAR = c.pllar
    /\ CKGR_MOR = CKGR_MOR_MOSCRCEN
    /\ PMC_PLLICPR = 0
    /\ SCKC_CR = 0
    /\ _pmc_mck = 0
    /\ PeriphReset
    /\ TwiReset
    /\ ConsoleStart
    /\ NoCall
    /\ NoTrace
    /\ PckReset
    /\ ws = NoStream
    /\ ex = ExStart

NextTwi ==
    \/ twi_configure_master
    \/ twi_enable_it
    \/ twi_disable_it
    \/ twi_get_status
    \/ twi_get_masked_status
    \/ TwiHwStatus

SpecTwi == InitTwi /\ [][NextTwi]_vars

CldivField == TWI_CWGR % 256
ChdivField == (TWI_CWGR \div 256) % 256
CkdivField == (TWI_CWGR \div 65536) % 8

\* twi_configure_master has run to its end
TwiConfigured == op = "twi_configure_master" /\ ~assert_failed

\* C5: after twi_configure_master, for every peripheral clock and every requested
\* twi_clock > 0, the bus rate of the programmed dividers,
\* clock / (2 * (CLDIV * 2^CKDIV + 3)), is at most the requested twi_clock.
C5_BusRateAtMostRequested ==
    TwiConfigured =>
        twi_cfg.clock \div (2 * (CldivField * Pow2(CkdivField) + 3)) <= arg

\* C6: the value twi_configure_master writes last to TWI_CWGR has CHDIV equal to
\* CLDIV, and the common value is the cl_div of the loop, at most 255: no bit of it
\* is lost in the 8-bit fields.
C6_EqualDutyNoTruncation ==
    op = "twi_configure_master" =>
        /\ twi_cfg.cl_div <= 255
        /\ ~assert_failed =>
              /\ twi_log[Len(twi_log)] = <<"W", "TWI_CWGR", TWI_CWGR>>
              /\ ChdivField = CldivField
              /\ CldivField = twi_cfg.cl_div

\* a value above 7 bits has been programmed in both fields, with a clock divider
C6_Witness ==
    /\ TwiConfigured
    /\ CldivField = 218
    /\ ChdivField = 218
    /\ CkdivField = 1

\* the smallest ck_div for which base >> ck_div is at most 255
MinCkDiv(clock, twi_clock) ==
    LET base == SubU32(ToU32(clock \div (2 * twi_clock)), 3)
        fits(k) == ShrU32(base, k).hi = 0 /\ ShrU32(base, k).lo <= 255
    IN  CHOOSE k \in 0..31 : fits(k) /\ \A j \in 0..(k - 1) : ~fits(j)

\* C7: in twi_configure_master the search loop ends, the assertion ck_div < 8 holds
\* for every peripheral clock and every twi_clock > 0, and ck_div is the smallest
\* value for which ((clock / (2 * twi_clock)) - 3) >> ck_div is at most 255.
C7_SearchEndsBelow8Minimal ==
    op = "twi_configure_master" =>
        /\ ~twi_cfg.shift_ub
        /\ twi_cfg.ck_div < 8
        /\ twi_cfg.ck_div = MinCkDiv(twi_cfg.clock, arg)

\* C10: twi_get_masked_status reads TWI_SR exactly once and returns the value read
\* with the sources that are not enabled in TWI_IMR masked out: every bit of the
\* result is set in the status read and in TWI_IMR.
C10_MaskedStatus ==
    op = "twi_get_masked_status" =>
        LET reads == SelectSeq(twi_log, LAMBDA e : e[1] = "R" /\ e[2] = "TWI_SR")
        IN  /\ Len(reads) = 1
            /\ ret = BitAnd(reads[1][3], TWI_IMR)
            /\ BitAnd(ret, reads[1][3]) = ret
            /\ BitAnd(ret, TWI_IMR) = ret

\* a status with NACK and TXRDY up has been read with only NACK enabled
C10_Witness ==
    /\ op = "twi_get_masked_status"
    /\ twi_log[1] = <<"R", "TWI_SR", TWI_SR_TXRDY + TWI_SR_NACK>>
    /\ TWI_IMR = TWI_SR_NACK
    /\ ret = TWI_SR_NACK
    /\ TWI_SR = TWI_SR_TXRDY

(***************************************************************************)
(* pmc.c: the peripheral clocks.  PMC_PCR is a command register: a write   *)
(* with CMD clear selects the peripheral PID, and a read then returns PID  *)
(* with EN up when the clock of that peripheral is enabled; a write with   *)
(* CMD set gives the clock of peripheral PID the state of the EN bit.      *)
(***************************************************************************)
PMC_PCR_PID(v) == v % 128
PMC_PCR_CMD == 4096
PMC_PCR_EN == 268435456

\* the value read from PMC_PCR after value was written to it
ReadPcr(value, en) ==
    IF PMC_PCR_PID(value) \in en
    THEN BitOr(PMC_PCR_PID(value), PMC_PCR_EN)
    ELSE PMC_PCR_PID(value)

\* the enabled peripheral clocks after value is written to PMC_PCR
WritePcr(value, en) ==
    IF BitAnd(value, PMC_PCR_CMD) = 0 THEN en
    ELSE IF BitAnd(value, PMC_PCR_EN) # 0 THEN en \cup {PMC_PCR_PID(value)}
    ELSE en \ {PMC_PCR_PID(value)}

\* the command pmc_enable_peripheral writes, pcr being the value read back
EnableCommand(pcr) == BitOr(pcr, BitOr(PMC_PCR_CMD, PMC_PCR_EN))

\* the command of pmc_disable_peripheral with the EN bit read back left in it
DisableCommand_keep_en(pcr) == BitOr(PMC_PCR_CMD, pcr)

\* the command pmc_disable_peripheral writes, pcr being the value read back
DisableCommand(pcr) == BitOr(PMC_PCR_CMD, BitClear(pcr, PMC_PCR_EN))

\* pmc_disable_peripheral(id): the enabled clocks and PMC_PCR after the call
DisablePeripheral(id, en) ==
    LET pcr == ReadPcr(PMC_PCR_PID(id), WritePcr(PMC_PCR_PID(id), en))
    IN  [en |-> WritePcr(DisableCommand(pcr), en), pcr |-> DisableCommand(pcr)]

\* the end of an operation on the peripheral clocks
PeriphDone(name, a, r) ==
    /\ Done(name, a, r)
    /\ UNCHANGED <<pmc_vars, twi_vars, assert_failed, con_vars, trace_vars, pck_vars, ws, ex>>

pmc_enable_peripheral ==
    \E id \in PeriphIds :
        LET pcr == ReadPcr(PMC_PCR_PID(id), WritePcr(PMC_PCR_PID(id), periph_en))
        IN  /\ loop_i = 0
            /\ id > 1 /\ id < ID_PERIPH_COUNT
            /\ PMC_PCR' = EnableCommand(pcr)
            /\ periph_en' = WritePcr(EnableCommand(pcr), periph_en)
            /\ last_call' = [last_call EXCEPT ![id] = "enable"]
            /\ PeriphDone("void", 0, 0)
            /\ UNCHANGED loop_i

pmc_disable_peripheral ==
    \E id \in PeriphIds :
        /\ loop_i = 0
        /\ id > 1 /\ id < ID_PERIPH_COUNT
        /\ PMC_PCR' = DisablePeripheral(id, periph_en).pcr
        /\ periph_en' = DisablePeripheral(id, periph_en).en
        /\ last_call' = [last_call EXCEPT ![id] = "disable"]
        /\ PeriphDone("void", 0, 0)
        /\ UNCHANGED loop_i

pmc_is_peripheral_enabled ==
    \E id \in PeriphIds :
        LET pcr == ReadPcr(PMC_PCR_PID(id), WritePcr(PMC_PCR_PID(id), periph_en))
        IN  /\ loop_i = 0
            /\ id > 1 /\ id < ID_PERIPH_COUNT
            /\ PMC_PCR' = PMC_PCR_PID(id)
            /\ PeriphDone("pmc_is_peripheral_enabled", id,
                          IF BitAnd(pcr, PMC_PCR_EN) # 0 THEN 1 ELSE 0)
            /\ UNCHANGED <<periph_en, last_call, loop_i>>

\* pmc_disable_all_peripherals is called: i = 2
pmc_disable_all_peripherals ==
    /\ loop_i = 0
    /\ loop_i' = 2
    /\ PeriphDone("void", 0, 0)
    /\ UNCHANGED <<PMC_PCR, periph_en, last_call>>

\* one turn of its loop: pmc_disable_peripheral(i), i++; the function returns when
\* i reaches ID_PERIPH_COUNT
pmc_disable_all_peripherals_loop ==
    /\ loop_i >= 2 /\ loop_i < ID_PERIPH_COUNT
    /\ PMC_PCR' = DisablePeripheral(loop_i, periph_en).pcr
    /\ periph_en' = DisablePeripheral(loop_i, periph_en).en
    /\ last_call' = [id \in PeriphIds |-> IF id = loop_i THEN "disable" ELSE last_call[id]]
    /\ loop_i' = IF loop_i + 1 < ID_PERIPH_COUNT THEN loop_i + 1 ELSE 0
    /\ PeriphDone("void", 0, 0)

InitPeriph ==
    /\ PMC_MCKR = PMC_MCKR_CSS_MAIN_CLK
    /\ CKGR_PLLAR = 0
    /\ CKGR_MOR = CKGR_MOR_MOSCRCEN
    /\ PMC_PLLICPR = 0
    /\ SCKC_CR = 0
    /\ _pmc_mck = 0
    /\ PeriphReset
    /\ TwiReset
    /\ ConsoleStart
    /\ NoCall
    /\ NoTrace
    /\ PckReset
    /\ ws = NoStream
    /\ ex = ExStart

NextPeriph ==
    \/ pmc_enable_peripheral
    \/ pmc_disable_peripheral
    \/ pmc_is_peripheral_enabled
    \/ pmc_disable_all_peripherals
    \/ pmc_disable_all_peripherals_loop

SpecPeriph == InitPeriph /\ [][NextPeriph]_vars

\* C9: after any sequence of pmc_enable_peripheral and pmc_disable_peripheral calls
\* on any ids, pmc_is_peripheral_enabled(id) returns 1 if the last of these calls
\* made for id was an enable and 0 if it was a disable, whatever was called for the
\* other ids.
C9_EnabledIsLastCall ==
    op = "pmc_is_peripheral_enabled" =>
        /\ last_call[arg] = "enable" => ret = 1
        /\ last_call[arg] = "disable" => ret = 0

\* peripheral 32 is reported enabled after the two other peripherals were enabled
\* and then disabled
C9_Witness ==
    /\ op = "pmc_is_peripheral_enabled"
    /\ arg = 32
    /\ ret = 1
    /\ last_call = [id \in PeriphIds |-> IF id = 32 THEN "enable" ELSE "disable"]
    /\ PMC_PCR = 32

\* ---------------------------------------------------------------------------
\* examples/spi_serialflash: the command buffer shared by the UART receive
\* interrupt (console_handler) and the main loop
\* ---------------------------------------------------------------------------

\* mutex_try_lock(&lock): the value returned (0 when the lock was taken) and the
\* lock after the call
mutex_try_lock(l) ==
    IF l = 0 THEN [ret |-> 0, lock |-> 1] ELSE [ret |-> 1, lock |-> l]

\* mutex_free(&lock): the lock after the call
mutex_free(l) == 0

\* the keys received: a printable character, CR, LF, backspace and DEL
KeyInputs == {97, 13, 10, 8, 127}

\* console_handler that goes on whatever mutex_try_lock returned
HandlerReturnsEarly_never(l) == FALSE

\* console_handler returns at once when mutex_try_lock fails
HandlerReturnsEarly(l) == mutex_try_lock(l).ret # 0

\* index is a uint32_t: a negative value stands for the values 2^32 - 1 downwards
\* that --index wraps to; they are all >= CMD_BUFFER_SIZE
HandlerIndex(i) == IF i < 0 \/ i >= CMD_BUFFER_SIZE THEN 0 ELSE i

\* the end of a step of the example
ConsoleDone ==
    UNCHANGED <<pmc_vars, periph_vars, twi_vars, assert_failed, op, arg, ret,
                trace_vars, pck_vars, ws, ex>>

\* the UART receive interrupt: console_handler(key) runs to its end before the
\* main loop goes on
console_handler ==
    \E key \in KeyInputs :
        /\ IF HandlerReturnsEarly(lock)
           THEN /\ irq' = "busy"
                /\ UNCHANGED <<lock, cmd_buffer, cmd_index, index, oob>>
           ELSE LET i0 == HandlerIndex(index)
                IN  /\ irq' = "stored"
                    /\ lock' = mutex_free(mutex_try_lock(lock).lock)
                    /\ CASE key \in {13, 10} ->
                                /\ cmd_buffer' = [cmd_buffer EXCEPT ![i0] = 0]
                                /\ cmd_index' = i0
                                /\ index' = 0
                                /\ UNCHANGED oob
                         [] key \in {127, 8} ->
                                /\ index' = i0 - 1
                                /\ IF i0 - 1 < 0
                                   THEN \* the write lands outside of cmd_buffer: on
                                        \* memory the model does not hold, or on
                                        \* the low byte of cmd_index
                                        /\ oob' = TRUE
                                        /\ cmd_index' \in {cmd_index, 0}
                                        /\ UNCHANGED cmd_buffer
                                   ELSE /\ cmd_buffer' = [cmd_buffer EXCEPT ![i0 - 1] = 0]
                                        /\ UNCHANGED <<cmd_index, oob>>
                         [] OTHER ->
                                /\ cmd_buffer' = [cmd_buffer EXCEPT ![i0] = key]
                                /\ index' = i0 + 1
                                /\ UNCHANGED <<cmd_index, oob>>
        /\ UNCHANGED <<pc, parsed>>
        /\ ConsoleDone

\* a step of the main loop from one position to the next
MainStep(from, to) ==
    /\ pc = from
    /\ pc' = to
    /\ irq' = "none"
    /\ UNCHANGED <<index, oob>>
    /\ ConsoleDone

\* cpsie I; wfi: the core goes on at the next interrupt
main_wfi ==
    /\ MainStep("wfi", "try_lock")
    /\ UNCHANGED <<lock, cmd_buffer, cmd_index, parsed>>

\* if (mutex_try_lock(&lock)) continue;
main_try_lock ==
    /\ MainStep("try_lock", IF mutex_try_lock(lock).ret # 0 THEN "wfi" ELSE "check")
    /\ lock' = mutex_try_lock(lock).lock
    /\ UNCHANGED <<cmd_buffer, cmd_index, parsed>>

\* if (cmd_index > 0)
main_check ==
    /\ MainStep("check", IF cmd_index > 0 THEN "parse" ELSE "free")
    /\ UNCHANGED <<lock, cmd_buffer, cmd_index, parsed>>

\* _cmd_parser(cmd_buffer, cmd_index): parsed is what the parser was given
main_parse ==
    /\ MainStep("parse", "clear")
    /\ parsed' = [i \in 1..cmd_index |-> cmd_buffer[i - 1]]
    /\ UNCHANGED <<lock, cmd_buffer, cmd_index>>

\* cmd_index = 0;
main_clear ==
    /\ MainStep("clear", "free")
    /\ cmd_index' = 0
    /\ UNCHANGED <<lock, cmd_buffer, parsed>>

\* a main loop that ends its iteration without mutex_free
main_free_forgotten ==
    /\ MainStep("free", "wfi")
    /\ UNCHANGED <<lock, cmd_buffer, cmd_index, parsed>>

\* mutex_free(&lock);
main_free ==
    /\ MainStep("free", "wfi")
    /\ lock' = mutex_free(lock)
    /\ UNCHANGED <<cmd_buffer, cmd_index, parsed>>

InitConsole ==
    /\ PMC_MCKR = PMC_MCKR_CSS_MAIN_CLK
    /\ CKGR_PLLAR = 0
    /\ CKGR_MOR = CKGR_MOR_MOSCRCEN
    /\ PMC_PLLICPR = 0
    /\ SCKC_CR = 0
    /\ _pmc_mck = 0
    /\ PeriphReset
    /\ TwiReset
    /\ ConsoleStart
    /\ NoCall
    /\ NoTrace
    /\ PckReset
    /\ ws = NoStream
    /\ ex = ExStart

NextConsole ==
    \/ console_handler
    \/ main_wfi
    \/ main_try_lock
    \/ main_check
    \/ main_parse
    \/ main_clear
    \/ main_free

SpecConsole == InitConsole /\ [][NextConsole]_vars

\* the positions of the main loop between its successful mutex_try_lock and the
\* end of mutex_free
MainHoldsLock == {"check", "parse", "clear", "free"}

\* C8: in every interleaving of the receive interrupt with the main loop, the
\* main loop reads cmd_index and cmd_buffer (the test, the parser, the reset)
\* only with the lock held, and console_handler changes neither cmd_buffer nor
\* cmd_index while the main loop is between its successful mutex_try_lock and
\* mutex_free
C8_LockGuardsCommandBuffer ==
    /\ [](pc \in MainHoldsLock => lock = 1)
    /\ [][(pc \in MainHoldsLock /\ irq' # "none")
            => UNCHANGED <<cmd_buffer, cmd_index>>]_vars

\* a key arrived while the parser was running on a command of two characters, and
\* console_handler found the lock taken
C8_Witness ==
    /\ pc = "parse"
    /\ irq = "busy"
    /\ lock = 1
    /\ cmd_index = 2
    /\ cmd_buffer[0] = 97 /\ cmd_buffer[1] = 97

(***************************************************************************)
(* twi.c: twi_start_read and twi_start_write.                              *)
(***************************************************************************)
TWI_CR_START == 1
TWI_MMR_MREAD == 4096

\* the asserts on the arguments
TwiStartValid(address, iaddress, isize) ==
    /\ BitAnd(address, 128) = 0
    /\ iaddress < Pow2(24)
    /\ isize < 4

\* twi_start_read with the START condition sent before the internal address is set
TwiStartReadAccesses_early_start(address, iaddress, isize) ==
    << <<"W", "TWI_MMR", 0>>,
       <<"W", "TWI_MMR", BitOr(isize * Pow2(8), BitOr(TWI_MMR_MREAD, address * Pow2(16)))>>,
       <<"W", "TWI_CR", TWI_CR_START>>,
       <<"W", "TWI_IADR", 0>>,
       <<"W", "TWI_IADR", iaddress>> >>

\* the register accesses of twi_start_read, in order
TwiStartReadAccesses(address, iaddress, isize) ==
    << <<"W", "TWI_MMR", 0>>,
       <<"W", "TWI_MMR", BitOr(isize * Pow2(8), BitOr(TWI_MMR_MREAD, address * Pow2(16)))>>,
       <<"W", "TWI_IADR", 0>>,
       <<"W", "TWI_IADR", iaddress>>,
       <<"W", "TWI_CR", TWI_CR_START>> >>

\* the register accesses of twi_start_write, in order; the last is twi_write_byte
TwiStartWriteAccesses(address, iaddress, isize, byte) ==
    << <<"W", "TWI_MMR", 0>>,
       <<"W", "TWI_MMR", BitOr(isize * Pow2(8), address * Pow2(16))>>,
       <<"W", "TWI_IADR", 0>>,
       <<"W", "TWI_IADR", iaddress>>,
       <<"W", "TWI_THR", byte>> >>

TwiAddressInputs == {0, 80, 127}
TwiIaddressInputs == {0, 4660, Pow2(24) - 1}
TwiIsizeInputs == 0..3
TwiByteInputs == {0, 165, 255}

twi_start_read ==
    \E address \in TwiAddressInputs, iaddress \in TwiIaddressInputs, isize \in TwiIsizeInputs :
        /\ ~assert_failed
        /\ TwiStartValid(address, iaddress, isize)
        /\ twi_log' = TwiStartReadAccesses(address, iaddress, isize)
        /\ TwiDone("twi_start_read",
                   [address |-> address, iaddress |-> iaddress, isize |-> isize, byte |-> 0], 0)
        /\ UNCHANGED <<TWI_CWGR, TWI_IMR, TWI_SR>>

twi_start_write ==
    \E address \in TwiAddressInputs, iaddress \in TwiIaddressInputs, isize \in TwiIsizeInputs,
       byte \in TwiByteInputs :
        /\ ~assert_failed
        /\ TwiStartValid(address, iaddress, isize)
        /\ twi_log' = TwiStartWriteAccesses(address, iaddress, isize, byte)
        /\ TwiDone("twi_start_write",
                   [address |-> address, iaddress |-> iaddress, isize |-> isize, byte |-> byte], 0)
        /\ UNCHANGED <<TWI_CWGR, TWI_IMR, TWI_SR>>

\* C11: twi_start_read writes TWI_MMR (with MREAD set, the slave address and the
\* size of the internal address) and TWI_IADR before it writes START to TWI_CR,
\* which is its last access; twi_start_write writes TWI_MMR (with MREAD clear)
\* and TWI_IADR before it writes the first byte to TWI_THR, which is its last
\* access, and it never writes START.
C11_AddressBeforeTrigger ==
    LET n == Len(twi_log)
        writes(reg) == {i \in 1..n : twi_log[i][1] = "W" /\ twi_log[i][2] = reg}
        last(reg) == twi_log[CHOOSE i \in writes(reg) : \A j \in writes(reg) : j <= i][3]
        mmr == last("TWI_MMR")
        programmed ==
            /\ writes("TWI_MMR") # {} /\ writes("TWI_IADR") # {}
            /\ \A i \in writes("TWI_MMR") \cup writes("TWI_IADR") : i < n
            /\ (mmr \div Pow2(16)) % 128 = arg.address
            /\ (mmr \div Pow2(8)) % 4 = arg.isize
            /\ last("TWI_IADR") = arg.iaddress
    IN  /\ op = "twi_start_read" =>
              /\ programmed
              /\ (mmr \div Pow2(12)) % 2 = 1
              /\ twi_log[n] = <<"W", "TWI_CR", 1>>
              /\ writes("TWI_CR") = {n}
        /\ op = "twi_start_write" =>
              /\ programmed
              /\ (mmr \div Pow2(12)) % 2 = 0
              /\ twi_log[n] = <<"W", "TWI_THR", arg.byte>>
              /\ writes("TWI_THR") = {n}
              /\ writes("TWI_CR") = {}

\* a read of three internal address bytes from slave 0x50 has been started
C11_Witness ==
    /\ op = "twi_start_read"
    /\ arg.address = 80 /\ arg.isize = 3 /\ arg.iaddress = Pow2(24) - 1
    /\ Len(twi_log) = 5

(***************************************************************************)
(* twi.c: twi_write_stream, statement by statement.  ws.buffer is the       *)
(* offset of the pointer buffer from stream; ws.thr lists the offsets of    *)
(* the bytes written to TWI_THR.                                            *)
(***************************************************************************)
TWI_FIFO_DEPTH == 8
TWI_CR_ACMEN == Pow2(16)
TWI_MMR_DADR(v) == (v % 128) * Pow2(16)
TWI_ACR_DATAL(v) == v % 256
TWI_ACR_DIR == Pow2(8)

\* the longest stream and the most bytes written to TWI_THR in one call
MaxLen == 5
MaxPush == 8

\* u > n for a uint32_t u and 0 <= n < 2^16
GtU32(u, n) == u.hi > 0 \/ u.lo > n

\* a statement of twi_write_stream
StreamStep(next) ==
    /\ ~assert_failed
    /\ ws' = next
    /\ UNCHANGED <<pmc_vars, periph_vars, TWI_CWGR, TWI_IMR, twi_cfg, assert_failed,
                   con_vars, trace_vars, pck_vars, ex>>

\* the call, up to the first test of the loop; the function has not returned
twi_write_stream ==
    \E addr \in TwiAddressInputs, len \in 0..MaxLen :
        /\ ws.pc \in {"idle", "done"}
        /\ StreamStep([pc |-> "loop", len |-> len, left |-> ToU32(len),
                       buf_size |-> ToU32(0), buffer |-> 0, thr |-> <<>>, ret |-> 0])
        /\ twi_log' = << <<"W", "TWI_CR", TWI_CR_MSEN + TWI_CR_SVDIS + TWI_CR_ACMEN>>,
                         <<"W", "TWI_MMR", TWI_MMR_DADR(addr)>>,
                         <<"W", "TWI_ACR", TWI_ACR_DATAL(len) + TWI_ACR_DIR>> >>
        /\ Done("running", 0, 0)
        /\ UNCHANGED TWI_SR

\* while (left > 0) is left: return len - left
twi_write_stream_return ==
    /\ ws.pc = "loop"
    /\ ~GtU32(ws.left, 0)
    /\ StreamStep([ws EXCEPT !.pc = "done",
                             !.ret = FromU32(SubU32(ToU32(ws.len), ws.left.lo))])
    /\ Done("twi_write_stream", ws.len, FromU32(SubU32(ToU32(ws.len), ws.left.lo)))
    /\ UNCHANGED <<TWI_SR, twi_log>>

\* the test of TXRDY, then buf_size from the fill level txfl of the FIFO
twi_write_stream_poll ==
    \E status \in {0, TWI_SR_TXRDY}, txfl \in 0..TWI_FIFO_DEPTH :
        LET free == TWI_FIFO_DEPTH - txfl
            clamped == IF ws.left.hi = 0 /\ free > ws.left.lo THEN ws.left ELSE ToU32(free)
        IN  /\ ws.pc = "loop"
            /\ GtU32(ws.left, 0)
            /\ TWI_SR' = ReadTwiSr(status).after
            /\ StreamStep(IF BitAnd(status, TWI_SR_TXRDY) = 0 THEN ws
                          ELSE [ws EXCEPT !.pc = "fill4", !.buf_size = clamped])
            /\ UNCHANGED <<twi_log, op, arg, ret>>

\* while (buf_size > sizeof(uint32_t)): four bytes are written at once
twi_write_stream_fill4 ==
    /\ ws.pc = "fill4"
    /\ GtU32(ws.buf_size, 4) => Len(ws.thr) + 4 <= MaxPush
    /\ StreamStep(IF GtU32(ws.buf_size, 4)
                  THEN [ws EXCEPT !.thr = @ \o <<ws.buffer, ws.buffer + 1,
                                                ws.buffer + 2, ws.buffer + 3>>,
                                  !.buffer = @ + 4,
                                  !.left = SubU32(@, 4),
                                  !.buf_size = SubU32(@, 4)]
                  ELSE [ws EXCEPT !.pc = "fill1"])
    /\ UNCHANGED <<TWI_SR, twi_log, op, arg, ret>>

\* while (buf_size >= sizeof(uint8_t)): one byte is written, the pointer and left
\* move by sizeof(uint16_t), buf_size by sizeof(uint32_t)
twi_write_stream_fill1 ==
    /\ ws.pc = "fill1"
    /\ GtU32(ws.buf_size, 0) => Len(ws.thr) < MaxPush
    /\ StreamStep(IF GtU32(ws.buf_size, 0)
                  THEN [ws EXCEPT !.thr = Append(@, ws.buffer),
                                  !.buffer = @ + 2,
                                  !.left = SubU32(@, 2),
                                  !.buf_size = SubU32(@, 4)]
                  ELSE [ws EXCEPT !.pc = "loop"])
    /\ UNCHANGED <<TWI_SR, twi_log, op, arg, ret>>

InitTwiXfer ==
    /\ \E c \in TwiPmcConfigs : PMC_MCKR = c.mckr /\ CKGR_PLLAR = c.pllar
    /\ CKGR_MOR = CKGR_MOR_MOSCRCEN
    /\ PMC_PLLICPR = 0
    /\ SCKC_CR = 0
    /\ _pmc_mck = 0
    /\ PeriphReset
    /\ TwiReset
    /\ ConsoleStart
    /\ NoCall
    /\ NoTrace
    /\ PckReset
    /\ ws = NoStream
    /\ ex = ExStart

\* the start of a transfer
NextTwiXfer ==
    \/ twi_start_read
    \/ twi_start_write

SpecTwiXfer == InitTwiXfer /\ [][NextTwiXfer]_vars

\* calls of twi_write_stream
NextTwiStream ==
    \/ twi_write_stream
    \/ twi_write_stream_return
    \/ twi_write_stream_poll
    \/ twi_write_stream_fill4
    \/ twi_write_stream_fill1

SpecTwiStream == InitTwiXfer /\ [][NextTwiStream]_vars

\* C12: twi_write_stream writes the bytes of the stream to TWI_THR once each and
\* in order (what it has written so far is always the start of the stream), and
\* when it returns it has written all len bytes and returns len.
C12_StreamWrittenOnceInOrder ==
    /\ \A i \in 1..Len(ws.thr) : ws.thr[i] = i - 1 /\ i <= ws.len
    /\ ws.pc = "done" => Len(ws.thr) = ws.len /\ ws.ret = ws.len

(***************************************************************************)
(* examples/crypto_qspi_aesb: main.  ex.calls lists the calls made, each    *)
(* with what it returned (TRUE for a call that returns nothing).           *)
(***************************************************************************)
\* the size of buffer and buffer_read in the model (4096 in the program)
BufferSize == 3

\* buffer[idx] = 1 << (idx % 8)
ExBuffer == [idx \in 0..(BufferSize - 1) |-> Pow2(idx % 8)]

\* what a read of the flash may put in buffer_read
ExReadInputs == [0..(BufferSize - 1) -> {0, 1, 2, 4}]

\* trace_fatal: the trace, then while(1)
trace_fatal(e) == [e EXCEPT !.pc = "halt", !.calls = Append(@, <<"trace_fatal", TRUE>>)]

\* a call whose failure is not looked at
ExCall_unchecked(e, name, ok, to) == [e EXCEPT !.pc = to, !.calls = Append(@, <<name, ok>>)]

\* if (!name(...)) trace_fatal(...); then on to the statement to
ExCall(e, name, ok, to) ==
    IF ok THEN [e EXCEPT !.pc = to, !.calls = Append(@, <<name, ok>>)]
    ELSE trace_fatal([e EXCEPT !.calls = Append(@, <<name, ok>>)])

\* a statement of main
ExStep(from, next) ==
    /\ ex.pc = from
    /\ ex' = next
    /\ UNCHANGED <<pmc_vars, periph_vars, twi_vars, assert_failed, con_vars, trace_vars,
                   pck_vars, ws, op, arg, ret>>

\* the AESB is reset and put in automatic bridge mode, the QSPI is initialized
ex_aesb_configure ==
    ExStep("aesb_configure",
           [ex EXCEPT !.pc = "qspiflash_configure",
                      !.calls = Append(@, <<"aesb_configure", TRUE>>)])

ex_qspiflash_configure ==
    \E ok \in BOOLEAN :
        ExStep("qspiflash_configure", ExCall(ex, "qspiflash_configure", ok, "use_aesb_on"))

\* qspiflash_use_aesb(&flash, true) and the fill of buffer
ex_use_aesb_on ==
    ExStep("use_aesb_on",
           [ex EXCEPT !.pc = "erase", !.calls = Append(@, <<"qspiflash_use_aesb(true)", TRUE>>)])

ex_erase_block ==
    \E ok \in BOOLEAN :
        ExStep("erase", ExCall(ex, "qspiflash_erase_block", ok, "write"))

ex_write ==
    \E ok \in BOOLEAN :
        ExStep("write", ExCall(ex, "qspiflash_write", ok, "read1"))

\* memset(buffer_read, 0, ...), qspiflash_read, verify_failed = false, idx = 0
ex_read ==
    \E ok \in BOOLEAN, data \in ExReadInputs, n \in {1, 2} :
        LET from == IF n = 1 THEN "read1" ELSE "read2"
            to == IF n = 1 THEN "verify1" ELSE "verify2"
            cleared == [ex EXCEPT !.buffer_read = IF ok THEN data
                                                   ELSE [i \in 0..(BufferSize - 1) |-> 0],
                                  !.verify_failed = FALSE,
                                  !.idx = 0]
        IN  ExStep(from, ExCall(cleared, "qspiflash_read", ok, to))

\* one turn of a verification loop, or its end
ex_verify ==
    \E n \in {1, 2} :
        LET from == IF n = 1 THEN "verify1" ELSE "verify2"
            to == IF n = 1 THEN "use_aesb_off" ELSE "end"
            finished(failed) == [ex EXCEPT !.pc = to, !.verify_failed = failed,
                                           !.calls = Append(@, <<"verify", ~failed>>)]
        IN  ExStep(from,
                   IF ex.idx >= BufferSize THEN finished(FALSE)
                   ELSE IF ex.buffer_read[ex.idx] # ExBuffer[ex.idx] THEN finished(TRUE)
                   ELSE [ex EXCEPT !.idx = @ + 1])

\* qspiflash_use_aesb(&flash, false)
ex_use_aesb_off ==
    ExStep("use_aesb_off",
           [ex EXCEPT !.pc = "read2", !.calls = Append(@, <<"qspiflash_use_aesb(false)", TRUE>>)])

InitEx ==
    /\ PMC_MCKR = PMC_MCKR_CSS_MAIN_CLK
    /\ CKGR_PLLAR = 0
    /\ CKGR_MOR = CKGR_MOR_MOSCRCEN
    /\ PMC_PLLICPR = 0
    /\ SCKC_CR = 0
    /\ _pmc_mck = 0
    /\ PeriphReset
    /\ TwiReset
    /\ ConsoleStart
    /\ NoCall
    /\ NoTrace
    /\ PckReset
    /\ ws = NoStream
    /\ ex = ExStart

NextEx ==
    \/ ex_aesb_configure
    \/ ex_qspiflash_configure
    \/ ex_use_aesb_on
    \/ ex_erase_block
    \/ ex_write
    \/ ex_read
    \/ ex_verify
    \/ ex_use_aesb_off

SpecEx == InitEx /\ [][NextEx]_vars

\* C13: a failure of qspiflash_configure, qspiflash_erase_block, qspiflash_write or
\* of either qspiflash_read is followed at once by the fatal trace, after which
\* the program has halted and makes no other call; and a run that reaches the end
\* has made its calls in the order AESB configure, flash configure, AESB scope
\* on, erase, write, read, verify, AESB scope off, read, verify.
C13_FatalHaltsAndOrder ==
    LET n == Len(ex.calls)
        names == [i \in 1..n |-> ex.calls[i][1]]
    IN  /\ \A i \in 1..n :
              /\ ex.calls[i][1] = "trace_fatal" => i = n /\ ex.pc = "halt"
              /\ (ex.calls[i][1] # "verify" /\ ~ex.calls[i][2]) =>
                    i + 1 = n /\ ex.calls[n][1] = "trace_fatal"
        /\ ex.pc = "halt" => n >= 2 /\ ex.calls[n][1] = "trace_fatal" /\ ~ex.calls[n - 1][2]
        /\ ex.pc = "end" =>
              names = <<"aesb_configure", "qspiflash_configure", "qspiflash_use_aesb(true)",
                        "qspiflash_erase_block", "qspiflash_write", "qspiflash_read",
                        "verify", "qspiflash_use_aesb(false)", "qspiflash_read", "verify">>

\* the second read failed after a first verification that found a difference: the
\* program has halted
C13_Witness ==
    /\ ex.pc = "halt"
    /\ Len(ex.calls) = 10
    /\ ex.calls[9] = <<"qspiflash_read", FALSE>>
    /\ ex.calls[7] = <<"verify", FALSE>>

(***************************************************************************)
(* The PMC functions with their register accesses recorded: every function *)
(* leaves its name in op and its accesses in pmc_log.  The master clock    *)
(* starts on any source, with and without a prescaler and a divider.       *)
(***************************************************************************)
TraceMckrInputs ==
    {PMC_MCKR_CSS_SLOW_CLK,
     PMC_MCKR_CSS_SLOW_CLK + PMC_MCKR_PRES_CLOCK_DIV2,
     PMC_MCKR_CSS_SLOW_CLK + PMC_MCKR_MDIV_PCK_DIV3 + PMC_MCKR_PLLADIV2,
     PMC_MCKR_CSS_MAIN_CLK,
     PMC_MCKR_CSS_PLLA_CLK + PMC_MCKR_PRES_CLOCK_DIV4 + PMC_MCKR_MDIV_PCK_DIV2}

InitPmcTrace ==
    /\ PMC_MCKR \in TraceMckrInputs
    /\ CKGR_PLLAR = CKGR_PLLAR_MULA(1) + CKGR_PLLAR_DIVA(1)
    /\ CKGR_MOR \in MorInputs
    /\ PMC_PLLICPR = 0
    /\ SCKC_CR \in SckcInputs
    /\ _pmc_mck = 0
    /\ PeriphReset
    /\ TwiReset
    /\ ConsoleStart
    /\ NoCall
    /\ tracing = TRUE
    /\ pmc_log = <<>>
    /\ osc_pc = "idle"
    /\ PckReset
    /\ ws = NoStream
    /\ ex = ExStart

NextPmcTrace ==
    \/ pmc_get_master_clock
    \/ pmc_get_slow_clock_call
    \/ pmc_get_main_clock_call
    \/ pmc_switch_mck_to_pll
    \/ pmc_switch_mck_to_main
    \/ pmc_switch_mck_to_slck
    \/ pmc_select_external_crystal
    \/ pmc_select_internal_crystal
    \/ pmc_select_external_osc
    \/ pmc_select_internal_osc

SpecPmcTrace == InitPmcTrace /\ [][NextPmcTrace]_vars

\* the constant returned by the query whose accesses are in log
ReturnedConstant(log) == log[Len(log)][2]

\* C14: a pmc_get_main_clock that follows pmc_select_external_osc returns
\* BOARD_MAIN_CLOCK_EXT_OSC, and one that follows pmc_select_internal_osc returns
\* MAIN_CLOCK_INT_OSC.
C14_MainClockQueryFollowsSelection ==
    [][/\ (op = "pmc_select_external_osc" /\ op' = "pmc_get_main_clock") =>
              ReturnedConstant(pmc_log') = "BOARD_MAIN_CLOCK_EXT_OSC"
       /\ (op = "pmc_select_internal_osc" /\ op' = "pmc_get_main_clock") =>
              ReturnedConstant(pmc_log') = "MAIN_CLOCK_INT_OSC"]_vars

\* C15: a pmc_get_slow_clock that follows pmc_select_external_crystal returns
\* BOARD_SLOW_CLOCK_EXT_OSC, and one that follows pmc_select_internal_crystal
\* returns SLOW_CLOCK_INT_OSC.
C15_SlowClockQueryFollowsSelection ==
    [][/\ (op = "pmc_select_external_crystal" /\ op' = "pmc_get_slow_clock") =>
              ret' = BOARD_SLOW_CLOCK_EXT_OSC
       /\ (op = "pmc_select_internal_crystal" /\ op' = "pmc_get_slow_clock") =>
              ret' = SLOW_CLOCK_INT_OSC]_vars


\* the value of register reg after the first k accesses of log, init before them
RegAfter(log, reg, k, init) ==
    LET writes == {i \in 1..k : log[i][1] = "W" /\ log[i][2] = reg}
    IN  IF writes = {} THEN init
        ELSE log[CHOOSE i \in writes : \A j \in writes : j <= i][3]

\* C16: in pmc_select_external_crystal and pmc_select_internal_crystal, PMC_MCKR
\* does not select the slow clock at the time SCKC_CR is written, and a master
\* clock that was on the slow clock on entry is on the slow clock again on return.
C16_OscselNotWrittenOnSlowClock ==
    op \in {"pmc_select_external_crystal", "pmc_select_internal_crystal"} =>
        LET entry == pmc_log[1][3]
        IN  /\ \A k \in 1..Len(pmc_log) :
                  (pmc_log[k][1] = "W" /\ pmc_log[k][2] = "SCKC_CR") =>
                      CssField(RegAfter(pmc_log, "PMC_MCKR", k, entry)) # PMC_MCKR_CSS_SLOW_CLK
            /\ CssField(entry) = PMC_MCKR_CSS_SLOW_CLK =>
                  CssField(PMC_MCKR) = PMC_MCKR_CSS_SLOW_CLK


\* the PMC_MCKR fields other than CSS
MckrButCss(mckr) == mckr - CssField(mckr)

\* the three switches and the source each one names
SwitchSources ==
    [pmc_switch_mck_to_pll |-> PMC_MCKR_CSS_PLLA_CLK,
     pmc_switch_mck_to_main |-> PMC_MCKR_CSS_MAIN_CLK,
     pmc_switch_mck_to_slck |-> PMC_MCKR_CSS_SLOW_CLK]

\* C17: a pmc_switch_mck_to_pll, _to_main or _to_slck sets the CSS field of
\* PMC_MCKR to the source it names and leaves the other fields as they were, writes
\* PMC_MCKR before it polls PMC_SR, ends on a read of PMC_SR that has MCKRDY set,
\* every earlier read having had it clear, and leaves the cache _pmc_mck at 0, so
\* that a pmc_get_master_clock that follows returns the frequency the registers
\* give.
C17_SwitchChangesCssWaitsInvalidates ==
    [][/\ op' \in DOMAIN SwitchSources =>
            LET n == Len(pmc_log')
            IN  /\ CssField(PMC_MCKR') = SwitchSources[op']
                /\ MckrButCss(PMC_MCKR') = MckrButCss(PMC_MCKR)
                /\ pmc_log'[1] = <<"R", "PMC_MCKR", PMC_MCKR>>
                /\ pmc_log'[2] = <<"W", "PMC_MCKR", PMC_MCKR'>>
                /\ n >= 3
                /\ \A i \in 3..n :
                      /\ pmc_log'[i][2] = "PMC_SR"
                      /\ (BitAnd(pmc_log'[i][3], PMC_SR_MCKRDY) # 0) = (i = n)
                /\ _pmc_mck' = 0
       /\ (op \in DOMAIN SwitchSources /\ op' = "pmc_get_master_clock") =>
            ret' = DerivedMck']_vars

\* pmc_switch_mck_to_slck has returned after a poll that found MCKRDY clear, on a
\* PMC_MCKR with a prescaler and a divider
C17_Witness ==
    /\ op = "pmc_switch_mck_to_slck"
    /\ Len(pmc_log) = 4
    /\ pmc_log[1][3] = PMC_MCKR_CSS_PLLA_CLK + PMC_MCKR_PRES_CLOCK_DIV4 + PMC_MCKR_MDIV_PCK_DIV2
    /\ PMC_MCKR = PMC_MCKR_CSS_SLOW_CLK + PMC_MCKR_PRES_CLOCK_DIV4 + PMC_MCKR_MDIV_PCK_DIV2
    /\ _pmc_mck = 0


(***************************************************************************)
(* pmc_set_mck_prescaler and pmc_set_mck_divider called with any argument, *)
(* values with bits outside the field included.                            *)
(***************************************************************************)
NextMckField ==
    \/ pmc_set_mck_prescaler
    \/ pmc_set_mck_divider

SpecMckField == InitPmcTrace /\ [][NextMckField]_vars

\* C18: pmc_set_mck_prescaler leaves every bit of PMC_MCKR outside the PRES field
\* as it was, and pmc_set_mck_divider every bit outside the MDIV field, whatever
\* the argument.
C18_OnlyTheFieldChanges ==
    [][/\ op' = "pmc_set_mck_prescaler" =>
            BitClear(PMC_MCKR', PMC_MCKR_PRES_Msk) = BitClear(PMC_MCKR, PMC_MCKR_PRES_Msk)
       /\ op' = "pmc_set_mck_divider" =>
            BitClear(PMC_MCKR', PMC_MCKR_MDIV_Msk) = BitClear(PMC_MCKR, PMC_MCKR_MDIV_Msk)]_vars


(***************************************************************************)
(* pmc.c: the programmable clocks PCK0, PCK1 and PCK2.  A write of         *)
(* PMC_SCER_PCKn sets PCKn in PMC_SCSR and a write of PMC_SCDR_PCKn clears *)
(* it; a wait loop may find its flag not yet as awaited.                   *)
(***************************************************************************)
PckFunction(kind, n) ==
    [configure |-> <<"pmc_configure_pck0", "pmc_configure_pck1", "pmc_configure_pck2">>,
     enable |-> <<"pmc_enable_pck0", "pmc_enable_pck1", "pmc_enable_pck2">>,
     disable |-> <<"pmc_disable_pck0", "pmc_disable_pck1", "pmc_disable_pck2">>][kind][n + 1]

\* a pmc_disable_pckN that leaves PCKn as it was
DisablePck_skipped(scsr, n) == scsr

\* PMC_SCSR after pmc_disable_pckN: the function returns once PCKn reads clear
DisablePck(scsr, n) == BitClear(scsr, PMC_SCSR_PCK(n))

\* the accesses of pmc_disable_pckN
DisablePckAccesses(n, polls) ==
    <<<<"W", "PMC_SCDR", PMC_SCDR_PCK(n)>>>> \o WaitClear("PMC_SCSR", PMC_SCSR_PCK(n), polls)

\* PMC_SCSR after pmc_enable_pckN
EnablePck(scsr, n) == BitOr(scsr, PMC_SCSR_PCK(n))

PckClockSources == {PMC_PCK_CSS_MAIN_CLK, 12}

PckPrescalers == {2}

PmcConfigurePck(n) ==
    \E clock_source \in PckClockSources, prescaler \in PckPrescalers, polls \in Polls :
        /\ PMC_SCSR' = DisablePck(PMC_SCSR, n)
        /\ PMC_PCK' = [PMC_PCK EXCEPT ![n] = BitOr(BitAnd(clock_source, PMC_PCK_CSS_Msk),
                                                    PMC_PCK_PRES(prescaler))]
        /\ PmcLogged(PckFunction("configure", n), clock_source, 0,
                     DisablePckAccesses(n, polls)
                         \o <<<<"W", "PMC_PCK", PMC_PCK'[n]>>>>)
        /\ UNCHANGED pmc_vars

PmcEnablePck(n) ==
    \E polls \in Polls :
        /\ PMC_SCSR' = EnablePck(PMC_SCSR, n)
        /\ PmcLogged(PckFunction("enable", n), n, 0,
                     <<<<"W", "PMC_SCER", PMC_SCER_PCK(n)>>>>
                         \o WaitSet("PMC_SR", PMC_SR_PCKRDY(n), polls))
        /\ UNCHANGED <<pmc_vars, PMC_PCK>>

PmcDisablePck(n) ==
    \E polls \in Polls :
        /\ PMC_SCSR' = DisablePck(PMC_SCSR, n)
        /\ PmcLogged(PckFunction("disable", n), n, 0, DisablePckAccesses(n, polls))
        /\ UNCHANGED <<pmc_vars, PMC_PCK>>

pmc_configure_pck0 == PmcConfigurePck(0)
pmc_enable_pck0 == PmcEnablePck(0)
pmc_disable_pck0 == PmcDisablePck(0)
pmc_configure_pck1 == PmcConfigurePck(1)
pmc_enable_pck1 == PmcEnablePck(1)
pmc_disable_pck1 == PmcDisablePck(1)
pmc_configure_pck2 == PmcConfigurePck(2)
pmc_enable_pck2 == PmcEnablePck(2)
pmc_disable_pck2 == PmcDisablePck(2)

NextPck ==
    \/ pmc_configure_pck0
    \/ pmc_enable_pck0
    \/ pmc_disable_pck0
    \/ pmc_configure_pck1
    \/ pmc_enable_pck1
    \/ pmc_disable_pck1
    \/ pmc_configure_pck2
    \/ pmc_enable_pck2
    \/ pmc_disable_pck2

\* the PMC at reset, the accesses recorded
InitPck ==
    /\ PMC_MCKR = PMC_MCKR_CSS_MAIN_CLK
    /\ CKGR_PLLAR = 0
    /\ CKGR_MOR = CKGR_MOR_MOSCRCEN
    /\ PMC_PLLICPR = 0
    /\ SCKC_CR = 0
    /\ _pmc_mck = 0
    /\ PeriphReset
    /\ TwiReset
    /\ ConsoleStart
    /\ NoCall
    /\ tracing = TRUE
    /\ pmc_log = <<>>
    /\ osc_pc = "idle"
    /\ PckReset
    /\ ws = NoStream
    /\ ex = ExStart

SpecPck == InitPck /\ [][NextPck]_vars

PckEnabled(scsr, n) == BitAnd(scsr, PMC_SCSR_PCK(n)) # 0

\* C19: for n in 0..2, PMC_PCK[n] changes only in pmc_configure_pckN, whose accesses
\* are the disable command, reads of PMC_SCSR the last of which, and only the
\* last, has PCKn clear, and then the one write of PMC_PCK[n]; PCKn is disabled
\* when pmc_configure_pckN returns and becomes enabled only in pmc_enable_pckN,
\* whose accesses are the enable command and reads of PMC_SR the last of which,
\* and only the last, has PCKRDYn set.
C19_PckConfiguredWhileDisabled ==
    [][\A n \in 0..2 :
        LET log == pmc_log'
            len == Len(log)
        IN  /\ PMC_PCK'[n] # PMC_PCK[n] => op' = PckFunction("configure", n)
            /\ op' = PckFunction("configure", n) =>
                  /\ len >= 3
                  /\ log[1] = <<"W", "PMC_SCDR", PMC_SCDR_PCK(n)>>
                  /\ \A i \in 2..(len - 1) :
                        /\ log[i][1] = "R" /\ log[i][2] = "PMC_SCSR"
                        /\ PckEnabled(log[i][3], n) = (i # len - 1)
                  /\ log[len] = <<"W", "PMC_PCK", PMC_PCK'[n]>>
                  /\ ~PckEnabled(PMC_SCSR', n)
            /\ (PckEnabled(PMC_SCSR', n) /\ ~PckEnabled(PMC_SCSR, n)) =>
                  op' = PckFunction("enable", n)
            /\ op' = PckFunction("enable", n) =>
                  /\ len >= 2
                  /\ log[1] = <<"W", "PMC_SCER", PMC_SCER_PCK(n)>>
                  /\ \A i \in 2..len :
                        /\ log[i][1] = "R" /\ log[i][2] = "PMC_SR"
                        /\ (BitAnd(log[i][3], PMC_SR_PCKRDY(n)) # 0) = (i = len)
                  /\ PckEnabled(PMC_SCSR', n)]_vars

\* PCK1 was enabled, pmc_configure_pck1 has disabled it, waited and written
\* PMC_PCK[1], while PCK0 is enabled
C19_Witness ==
    /\ op = "pmc_configure_pck1"
    /\ Len(pmc_log) = 4
    /\ PckEnabled(pmc_log[2][3], 1)
    /\ PMC_PCK[1] = 4 + PMC_PCK_PRES(2)
    /\ ~PckEnabled(PMC_SCSR, 1)
    /\ PckEnabled(PMC_SCSR, 0)


\* C20: console_handler has made no write outside of cmd_buffer[0 ..
\* CMD_BUFFER_SIZE - 1], and cmd_index is in 0 .. CMD_BUFFER_SIZE - 1, after any
\* sequence of keys.
C20_HandlerWritesStayInBuffer ==
    /\ ~oob
    /\ cmd_index \in 0..(CMD_BUFFER_SIZE - 1)


\* the command that a CR or LF has ended and that the parser has not been given:
\* the first cmd_index bytes of cmd_buffer
PendingCommand == [i \in 1..cmd_index |-> cmd_buffer[i - 1]]

\* C21: a command line ended by CR or LF (cmd_index > 0) that the parser has not
\* yet been called with is left as it is, content and length, by every
\* console_handler that runs before the parser does.
C21_PendingCommandKept ==
    [][(cmd_index > 0 /\ pc # "clear" /\ irq' # "none") =>
            /\ cmd_index' = cmd_index
            /\ PendingCommand' = PendingCommand]_vars


(***************************************************************************)
(* spi_serialflash with the core going on: once the parser has returned,   *)
(* the two statements that follow it are executed.  Nothing is assumed of  *)
(* the interrupts, of wfi or of the parser.                                *)
(***************************************************************************)
SpecConsoleFair ==
    /\ InitConsole
    /\ [][NextConsole]_vars
    /\ WF_vars(main_clear)
    /\ WF_vars(main_free)

\* C22: console_handler does not wait for the lock: when it finds the lock taken
\* it returns with the lock, cmd_buffer, cmd_index and index as they were, and
\* otherwise the lock is free when it returns; the lock is free whenever the
\* main loop is outside of the part it runs with the lock; and whenever the
\* parser has returned the lock is eventually free.
C22_LockEventuallyFree ==
    /\ [][irq' # "none" =>
            IF lock = 1
            THEN irq' = "busy" /\ UNCHANGED <<lock, cmd_buffer, cmd_index, index>>
            ELSE lock' = 0]_vars
    /\ [](pc \notin MainHoldsLock => lock = 0)
    /\ (pc = "clear") ~> (lock = 0)

\* the parser has returned with the lock held, and a key that arrived meanwhile
\* was turned away
C22_Witness ==
    /\ pc = "clear"
    /\ lock = 1
    /\ irq = "busy"
    /\ Len(parsed) = 1


(***************************************************************************)
(* pmc.c: pmc_select_internal_osc statement by statement, from every       *)
(* setting of the oscillator bits of CKGR_MOR.  The hardware raises        *)
(* MOSCRCS only while the internal RC oscillator is enabled (MOSCRCEN) and *)
(* raises MCKRDY after each clock change; a poll that finds its flag clear *)
(* leaves the state as it is.                                              *)
(***************************************************************************)
\* PMC->CKGR_MOR = (PMC->CKGR_MOR & ~CKGR_MOR_MOSCSEL) | CKGR_MOR_KEY_PASSWD;
ClearMoscsel(mor) == WriteMor(BitOr(BitClear(mor, CKGR_MOR_MOSCSEL), CKGR_MOR_KEY_PASSWD))

\* PMC->CKGR_MOR = (PMC->CKGR_MOR & ~CKGR_MOR_MOSCXTEN) | CKGR_MOR_KEY_PASSWD;
ClearMoscxten(mor) == WriteMor(BitOr(BitClear(mor, CKGR_MOR_MOSCXTEN), CKGR_MOR_KEY_PASSWD))

\* a step of the function from one position to the next
OscStep(from, to, mor, name) ==
    /\ osc_pc = from
    /\ osc_pc' = to
    /\ CKGR_MOR' = mor
    /\ Done(name, 0, 0)
    /\ UNCHANGED <<PMC_MCKR, CKGR_PLLAR, PMC_PLLICPR, SCKC_CR, _pmc_mck, periph_vars,
                   twi_vars, assert_failed, con_vars, tracing, pmc_log, pck_vars, ws, ex>>

\* the call: the function is at its first wait loop
pmc_select_internal_osc_call ==
    OscStep("idle", "wait_moscrcs", CKGR_MOR, "running")

\* while (!(PMC->PMC_SR & PMC_SR_MOSCRCS)); ends, and MOSCSEL is cleared
pmc_select_internal_osc_moscrcs ==
    /\ BitAnd(CKGR_MOR, CKGR_MOR_MOSCRCEN) # 0
    /\ OscStep("wait_moscrcs", "wait_mckrdy", ClearMoscsel(CKGR_MOR), "running")

\* the first while (!(PMC->PMC_SR & PMC_SR_MCKRDY)); ends, and MOSCXTEN is cleared
pmc_select_internal_osc_mckrdy ==
    OscStep("wait_mckrdy", "wait_mckrdy_last", ClearMoscxten(CKGR_MOR), "running")

\* the last wait loop ends and the function returns
pmc_select_internal_osc_return ==
    OscStep("wait_mckrdy_last", "idle", CKGR_MOR, "pmc_select_internal_osc")

OscMorInputs ==
    {rcen + xten + sel : rcen \in {0, CKGR_MOR_MOSCRCEN}, xten \in {0, CKGR_MOR_MOSCXTEN},
                         sel \in {0, CKGR_MOR_MOSCSEL}}

InitOsc ==
    /\ PMC_MCKR \in TraceMckrInputs
    /\ CKGR_PLLAR = CKGR_PLLAR_MULA(1) + CKGR_PLLAR_DIVA(1)
    /\ CKGR_MOR \in OscMorInputs
    /\ PMC_PLLICPR = 0
    /\ SCKC_CR \in SckcInputs
    /\ _pmc_mck = 0
    /\ PeriphReset
    /\ TwiReset
    /\ ConsoleStart
    /\ NoCall
    /\ tracing = TRUE
    /\ pmc_log = <<>>
    /\ osc_pc = "idle"
    /\ PckReset
    /\ ws = NoStream
    /\ ex = ExStart

NextOsc ==
    \/ pmc_select_internal_osc_call
    \/ pmc_select_internal_osc_moscrcs
    \/ pmc_select_internal_osc_mckrdy
    \/ pmc_select_internal_osc_return

\* the core goes on, and the hardware raises each flag as assumed
SpecOsc ==
    /\ InitOsc
    /\ [][NextOsc]_vars
    /\ WF_vars(pmc_select_internal_osc_moscrcs)
    /\ WF_vars(pmc_select_internal_osc_mckrdy)
    /\ WF_vars(pmc_select_internal_osc_return)

\* C23: pmc_select_internal_osc does not wait for MOSCRCS with the internal RC
\* oscillator disabled; whenever it has returned, MOSCSEL and MOSCXTEN are clear;
\* and every call returns.
C23_SelectInternalOscTerminates ==
    /\ [](osc_pc = "wait_moscrcs" => BitAnd(CKGR_MOR, CKGR_MOR_MOSCRCEN) # 0)
    /\ [](op = "pmc_select_internal_osc" =>
            BitAnd(CKGR_MOR, CKGR_MOR_MOSCSEL + CKGR_MOR_MOSCXTEN) = 0)
    /\ (osc_pc = "wait_moscrcs") ~> (osc_pc = "idle")

====
